---- MODULE Spec2Model ----
(***************************************************************************)
(* A model of MatSciKit's Panalytical .xrdml reader                        *)
(* (src/src/MatSciKit_COSMOTIM/io/xrdml_reader.py): the XRDMLReader class  *)
(* and the read_xrdml convenience function.                                *)
(* XRDDataReader.load_xrd_dataset (io/xrd_reader.py) and ttodataplot       *)
(* (io/ppmsTTOReader.py) are modelled in sections of their own, each with  *)
(* its own variable and specification.                                     *)
(*                                                                         *)
(* A file is an XML element tree.  An element is a record                  *)
(*   [tag |-> [ns, name], attrib |-> set of [k, v], text, children]        *)
(* where tag.ns is the namespace URI of ElementTree's "{uri}name" tag ("" *)
(* when the tag is unqualified).  Text is [has, toks]: has = FALSE is      *)
(* Python's None, otherwise toks is the whitespace-separated token list    *)
(* (empty for whitespace-only text).  Numbers are exact rationals [n, d]:  *)
(* the model abstracts IEEE doubles to the reals they approximate.         *)
(***************************************************************************)
EXTENDS Integers, Sequences, FiniteSets, TLC

(* ------------------------------ bounds -------------------------------- *)
\* longest generated intensity series
MaxLen == 3
\* generated intensity samples range over -1 .. MaxIntensity
MaxIntensity == 2
\* most xrdMeasurement blocks of a generated document
MaxMeasurements == 2
\* most scan children of one generated xrdMeasurement block
MaxScansPer == 2

(* ----------------------------- evaluation ----------------------------- *)
\* With([x \in {v} |-> e]) is e with x bound to the value of v, which is
\* evaluated once, as Python evaluates an assigned expression once (a LET
\* definition is evaluated again at every use)
With(f) == CHOOSE r \in UNION {{g[x] : x \in DOMAIN g} : g \in {f}} : TRUE

(* --------------------------- exact numbers ---------------------------- *)
Abs(x) == IF x < 0 THEN -x ELSE x

RECURSIVE GCD(_, _)
GCD(a, b) == IF b = 0 THEN a ELSE GCD(b, a % b)

\* the rational n/d in lowest terms with a positive denominator (d # 0)
Rat(n, d) ==
    LET g == GCD(Abs(n), Abs(d))
        s == IF d < 0 THEN -1 ELSE 1
    IN  [n |-> (s * n) \div g, d |-> (s * d) \div g]

RInt(i) == [n |-> i, d |-> 1]
RAdd(a, b) == Rat(a.n * b.d + b.n * a.d, a.d * b.d)
RSub(a, b) == Rat(a.n * b.d - b.n * a.d, a.d * b.d)
RMul(a, b) == Rat(a.n * b.n, a.d * b.d)
\* b # 0
RDiv(a, b) == Rat(a.n * b.d, a.d * b.n)
RLe(a, b) == a.n * b.d <= b.n * a.d
RLt(a, b) == a.n * b.d < b.n * a.d
RZero == RInt(0)
ROne == RInt(1)

(* ------------------------------- text --------------------------------- *)
\* tokens of an element's text: a number, or a word no float parser accepts
NumTok(r) == [k |-> "num", n |-> r.n, d |-> r.d, s |-> ""]
StrTok(s) == [k |-> "str", n |-> 0, d |-> 1, s |-> s]
TokVal(t) == [n |-> t.n, d |-> t.d]

\* elem.text is None
NoText == [has |-> FALSE, toks |-> <<>>]
Text(toks) == [has |-> TRUE, toks |-> toks]
\* Python truthiness of elem.text (ElementTree gives None, never "")
Truthy(text) == text.has

(* ------------------------------ elements ------------------------------ *)
QName(ns, name) == [ns |-> ns, name |-> name]
ElA(ns, name, attrib, text, children) ==
    [tag |-> QName(ns, name), attrib |-> attrib, text |-> text,
     children |-> children]
El(ns, name, text, children) == ElA(ns, name, {}, text, children)

RECURSIVE SelectIdx(_, _, _)
\* the indices i >= from of the children of elem whose tag is q, ascending
SelectIdx(elem, q, from) ==
    IF from > Len(elem.children) THEN <<>>
    ELSE (IF elem.children[from].tag = q THEN <<from>> ELSE <<>>)
             \o SelectIdx(elem, q, from + 1)

\* Element.findall(f'{ns}{name}'): the matching direct children, in document
\* order, as child indices
findall(elem, ns, name) == SelectIdx(elem, QName(ns, name), 1)

\* Element.find(f'{ns}{name}'): the first matching direct child (0: None)
find(elem, ns, name) ==
    LET all == findall(elem, ns, name)
    IN  IF all = <<>> THEN 0 ELSE all[1]

\* a placeholder where Python holds no element
NoElem == El("", "", NoText, <<>>)

RECURSIVE Deref(_, _)
\* the element a handle (the path of child indices from the root) refers to
Deref(root, path) ==
    IF path = <<>> THEN root
    ELSE Deref(root.children[Head(path)], Tail(path))

(* ------------------------------ errors -------------------------------- *)
\* index and available are the two numbers of the scan index message, and
\* detail is the text of an underlying exception that the message embeds
NoError == [type |-> "", msg |-> "", index |-> 0, available |-> 0, detail |-> ""]
Error(type, msg) ==
    [type |-> type, msg |-> msg, index |-> 0, available |-> 0, detail |-> ""]
\* f"Invalid XML file: {e}"
InvalidXmlError(e) ==
    [type |-> "ValueError", msg |-> "Invalid XML file", index |-> 0,
     available |-> 0, detail |-> e]
\* f"Scan index {scan_index} out of range. Available scans: {len(self.scans)}"
ScanIndexError(i, n) ==
    [type |-> "IndexError", msg |-> "Scan index out of range. Available scans",
     index |-> i, available |-> n, detail |-> ""]

(* --------------------- Python and numpy primitives -------------------- *)
\* float(text): TypeError on None, ValueError unless the text is one number
PyFloat(text) ==
    IF ~text.has THEN [ok |-> FALSE, type |-> "TypeError", val |-> RZero]
    ELSE IF Len(text.toks) # 1 \/ text.toks[1].k # "num"
         THEN [ok |-> FALSE, type |-> "ValueError", val |-> RZero]
         ELSE [ok |-> TRUE, type |-> "", val |-> TokVal(text.toks[1])]

RECURSIVE NumPrefix(_)
\* the values of the leading numeric tokens
NumPrefix(toks) ==
    IF toks = <<>> \/ Head(toks).k # "num" THEN <<>>
    ELSE <<TokVal(Head(toks))>> \o NumPrefix(Tail(toks))

\* np.fromstring(text, sep=' ') of a non-empty string.  Text that is read to
\* its end gives its values.  Text with unmatched data (a word that is no
\* number, or nothing but whitespace) gives, depending on the numpy build,
\* the values read so far (with a DeprecationWarning) or a ValueError:
\* strict is the build's choice.
FromString(text, strict) ==
    LET vals == NumPrefix(text.toks)
        clean == Len(vals) = Len(text.toks) /\ Len(vals) >= 1
    IN  IF clean \/ ~strict
        THEN [ok |-> TRUE, type |-> "", arr |-> vals]
        ELSE [ok |-> FALSE, type |-> "ValueError", arr |-> <<>>]

\* np.linspace(start, stop, num): step = (stop - start) / (num - 1),
\* y[k] = k * step + start, and the last sample is set to stop when num > 1;
\* num = 1 gives [start], num = 0 the empty array
Linspace(start, stop, num) ==
    LET div == num - 1
        step == IF div > 0 THEN RDiv(RSub(stop, start), RInt(div)) ELSE RZero
    IN  [k \in 1..num |->
            IF num > 1 /\ k = num THEN stop
            ELSE RAdd(RMul(RInt(k - 1), step), start)]

RECURSIVE ArrMax(_)
\* np.max of a non-empty array
ArrMax(arr) ==
    IF Len(arr) = 1 THEN arr[1]
    ELSE LET m == ArrMax(Tail(arr))
         IN  IF RLe(m, arr[1]) THEN arr[1] ELSE m

\* mutant: intensities / np.sum(intensities) in place of the maximum
NormalizeBySum(intensities) ==
    IF Len(intensities) = 0
    THEN [ok |-> FALSE, type |-> "ValueError", arr |-> <<>>]
    ELSE LET RECURSIVE Sum(_)
             Sum(a) == IF a = <<>> THEN RZero ELSE RAdd(Head(a), Sum(Tail(a)))
             max_intensity == ArrMax(intensities)
         IN  IF RLt(RZero, max_intensity) /\ Sum(intensities) # RZero
             THEN [ok |-> TRUE, type |-> "",
                   arr |-> [k \in 1..Len(intensities) |->
                               RDiv(intensities[k], Sum(intensities))]]
             ELSE [ok |-> TRUE, type |-> "", arr |-> intensities]

\* mutant: an offset in the divisor, intensities / (max_intensity + 1)
NormalizeWithOffset(intensities) ==
    IF Len(intensities) = 0
    THEN [ok |-> FALSE, type |-> "ValueError", arr |-> <<>>]
    ELSE LET max_intensity == ArrMax(intensities)
         IN  IF RLt(RZero, max_intensity)
             THEN [ok |-> TRUE, type |-> "",
                   arr |-> [k \in 1..Len(intensities) |->
                               RDiv(intensities[k], RAdd(max_intensity, ROne))]]
             ELSE [ok |-> TRUE, type |-> "", arr |-> intensities]

\* mutant: "if max_intensity:" in place of "if max_intensity > 0:"
NormalizeIfNonzero(intensities) ==
    IF Len(intensities) = 0
    THEN [ok |-> FALSE, type |-> "ValueError", arr |-> <<>>]
    ELSE LET max_intensity == ArrMax(intensities)
         IN  IF max_intensity # RZero
             THEN [ok |-> TRUE, type |-> "",
                   arr |-> [k \in 1..Len(intensities) |->
                               RDiv(intensities[k], max_intensity)]]
             ELSE [ok |-> TRUE, type |-> "", arr |-> intensities]

\* the normalization step of to_array and read_xrdml:
\*   max_intensity = np.max(intensities)
\*   if max_intensity > 0: intensities = intensities / max_intensity
\* np.max raises ValueError on a zero-size array
Normalize(intensities) ==
    IF Len(intensities) = 0
    THEN [ok |-> FALSE, type |-> "ValueError", arr |-> <<>>]
    ELSE LET max_intensity == ArrMax(intensities)
         IN  IF RLt(RZero, max_intensity)
             THEN [ok |-> TRUE, type |-> "",
                   arr |-> [k \in 1..Len(intensities) |->
                               RDiv(intensities[k], max_intensity)]]
             ELSE [ok |-> TRUE, type |-> "", arr |-> intensities]

(* ------------------------------ the loader ---------------------------- *)
\* the namespace prefix of the root tag: tag.split('}')[0] + '}' when the
\* tag holds a '}', else the initial ""
RootNamespace(root) == root.tag.ns

RECURSIVE CollectScans(_, _, _)
\* for measurement in xrd_measurements: self.scans.extend(
\*     measurement.findall(f'{ns}scan')), as handles <<measurement, scan>>
CollectScans(root, ns, measurements) ==
    IF measurements = <<>> THEN <<>>
    ELSE LET m == Head(measurements)
             found == findall(root.children[m], ns, "scan")
         IN  [k \in 1..Len(found) |-> <<m, found[k]>>]
                 \o CollectScans(root, ns, Tail(measurements))

\* mutant: root.find in place of root.findall, so that only the first
\* measurement block is indexed
IndexScansFirstBlock(root, ns) ==
    CollectScans(root, ns,
                 IF find(root, ns, "xrdMeasurement") = 0 THEN <<>>
                 ELSE <<find(root, ns, "xrdMeasurement")>>)

\* the scan index built by _parse_file
IndexScans(root, ns) == CollectScans(root, ns, findall(root, ns, "xrdMeasurement"))

NoReader ==
    [constructed |-> FALSE, root |-> NoElem, namespace |-> "", scans |-> <<>>]

\* mutant: the namespace of the root tag kept even when the comment element
\* was found only unqualified
ResolveNamespaceKeepsRoot(root) ==
    LET ns0 == RootNamespace(root)
    IN  IF find(root, ns0, "comment") # 0 THEN [valid |-> TRUE, namespace |-> ns0]
        ELSE IF find(root, "", "comment") # 0 THEN [valid |-> TRUE, namespace |-> ns0]
        ELSE [valid |-> FALSE, namespace |-> ns0]

\* lines 66-76: the namespace of the root tag when the comment element is
\* found under it, "" when it is found unqualified only; neither: the
\* ValueError of line 75 is raised before line 76 resets the namespace
ResolveNamespace(root) ==
    LET ns0 == RootNamespace(root)
    IN  IF find(root, ns0, "comment") # 0 THEN [valid |-> TRUE, namespace |-> ns0]
        ELSE IF find(root, "", "comment") # 0 THEN [valid |-> TRUE, namespace |-> ""]
        ELSE [valid |-> FALSE, namespace |-> ns0]

\* mutant: the comment check of lines 72-76 left out
LoadDocumentUnvalidated(root, steps) ==
    [raised |-> FALSE, error |-> NoError, steps |-> steps \o <<"validate", "index">>,
     reader |-> [constructed |-> TRUE, root |-> root,
                 namespace |-> RootNamespace(root),
                 scans |-> IndexScans(root, RootNamespace(root))]]

\* lines 64-82: the parsed tree is validated, then its scans are indexed
LoadDocument(root, steps) ==
    With([rn \in {ResolveNamespace(root)} |->
        IF ~rn.valid
        THEN [raised |-> TRUE, error |-> Error("ValueError", "Not a valid .xrdml file"),
              steps |-> steps \o <<"validate">>, reader |-> NoReader]
        ELSE [raised |-> FALSE, error |-> NoError,
              steps |-> steps \o <<"validate", "index">>,
              reader |-> [constructed |-> TRUE, root |-> root,
                          namespace |-> rn.namespace,
                          scans |-> IndexScans(root, rn.namespace)]]])

\* mutant: "except ET.ParseError" left out, so that the parser's own error
\* leaves the constructor
ParseTreeRaw(f, steps) ==
    IF ~f.exists
    THEN [raised |-> TRUE, error |-> Error("FileNotFoundError", "No such file or directory"),
          steps |-> steps \o <<"parse">>, reader |-> NoReader]
    ELSE IF ~f.wellformed
    THEN [raised |-> TRUE,
          error |-> [Error("ParseError", "") EXCEPT !.detail = f.diagnostic],
          steps |-> steps \o <<"parse">>, reader |-> NoReader]
    ELSE LoadDocument(f.root, steps \o <<"parse">>)

\* lines 62-85, _parse_file: ET.parse(self.filepath) raises ET.ParseError on
\* text that is not well-formed, which becomes the ValueError of line 85,
\* and FileNotFoundError when nothing is at the path
ParseTree(f, steps) ==
    IF ~f.exists
    THEN [raised |-> TRUE, error |-> Error("FileNotFoundError", "No such file or directory"),
          steps |-> steps \o <<"parse">>, reader |-> NoReader]
    ELSE IF ~f.wellformed
    THEN [raised |-> TRUE, error |-> InvalidXmlError(f.diagnostic),
          steps |-> steps \o <<"parse">>, reader |-> NoReader]
    ELSE LoadDocument(f.root, steps \o <<"parse">>)

\* mutant: the constructor without the exists() test of lines 44-45
parse_file_unchecked(f) == ParseTree(f, <<>>)

\* XRDMLReader.__init__ with _parse_file: the reader, or the error raised,
\* and the steps taken (the existence check, the XML parse, the validation
\* of the tree, the indexing of its scans)
parse_file(f) ==
    IF ~f.exists
    THEN [raised |-> TRUE, error |-> Error("FileNotFoundError", "File not found"),
          steps |-> <<"exists">>, reader |-> NoReader]
    ELSE ParseTree(f, <<"exists">>)

\* XRDMLReader.get_num_scans
get_num_scans(reader) == Len(reader.scans)

\* self.scans[scan_index], Python list indexing: a negative index counts
\* from the end, and an index outside -len .. len-1 raises
\* IndexError("list index out of range")
ScansItem(reader, scan_index) ==
    LET n == Len(reader.scans)
    IN  IF 0 <= scan_index /\ scan_index < n
        THEN [ok |-> TRUE, handle |-> reader.scans[scan_index + 1]]
        ELSE IF scan_index < 0 /\ -scan_index <= n
        THEN [ok |-> TRUE, handle |-> reader.scans[n + scan_index + 1]]
        ELSE [ok |-> FALSE, handle |-> <<>>]

(* ------------------------------ metadata ------------------------------ *)
\* the fixed goniometer radius of the except branch of get_metadata
DefaultGonioRadius == 300

\* metadata values: a float, or a string (its tokens)
MNum(r) == [k |-> "num", n |-> r.n, d |-> r.d, toks |-> <<>>]
MStr(toks) == [k |-> "str", n |-> 0, d |-> 1, toks |-> toks]

\* metadata[key] = val on a dict held as a set of [key, val] items
Put(md, key, val) ==
    {item \in md : item.key # key} \union {[key |-> key, val |-> val]}

\* the state of one get_metadata call: the dict so far, the element lookups
\* made so far, and the exception in flight (type "" while none is)
MdStart == [md |-> {}, lk |-> <<>>, exc |-> NoError]
Looked(st, names) == [st EXCEPT !.lk = @ \o names]

\* the text of the element found at child index idx (None when not found)
ElemText(parent, idx) == IF idx = 0 THEN NoText ELSE parent.children[idx].text

\* mutant: metadata[key] = e.text if e is not None else None, the key
\* written whether or not there is a text
PutTextOrNone(st, text, key) ==
    [st EXCEPT !.md = Put(@, key, MStr(text.toks))]

\* if e is not None and e.text: metadata[key] = e.text
PutText(st, text, key) ==
    IF Truthy(text) THEN [st EXCEPT !.md = Put(@, key, MStr(text.toks))] ELSE st

\* if e is not None and e.text: metadata[key] = float(e.text); float raises
\* ValueError on text that is no number
PutFloat(st, text, key) ==
    IF st.exc.type # "" \/ ~Truthy(text) THEN st
    ELSE With([pf \in {PyFloat(text)} |->
            IF pf.ok THEN [st EXCEPT !.md = Put(@, key, MNum(pf.val))]
            ELSE [st EXCEPT !.exc = Error(pf.type, "could not convert string to float")]])

\* lines 116-121: sample/id
MdSample(root, ns, st) ==
    With([sample \in {find(root, ns, "sample")} |->
        IF sample = 0 THEN Looked(st, <<"sample">>)
        ELSE PutText(Looked(st, <<"sample", "id">>),
                     ElemText(root.children[sample],
                              find(root.children[sample], ns, "id")),
                     "sample_id")])

\* lines 129-141: the four lookups under usedWavelength element w, then the
\* four conversions in order
MdWavelengthValues(w, ns, st) ==
    With([s1 \in {PutFloat(st, ElemText(w, find(w, ns, "kAlpha1")), "wavelength_ka1")} |->
    With([s2 \in {PutFloat(s1, ElemText(w, find(w, ns, "kAlpha2")), "wavelength_ka2")} |->
    With([s3 \in {PutFloat(s2, ElemText(w, find(w, ns, "kBeta")), "wavelength_kb")} |->
    PutFloat(s3, ElemText(w, find(w, ns, "ratioKAlpha2KAlpha1")), "ka2_ka1_ratio")])])])

\* lines 126-141: usedWavelength of the measurement block xm
MdWavelength(xm, ns, st) ==
    With([wavelength \in {find(xm, ns, "usedWavelength")} |->
        IF wavelength = 0 THEN Looked(st, <<"usedWavelength">>)
        ELSE MdWavelengthValues(xm.children[wavelength], ns,
                 Looked(st, <<"usedWavelength", "kAlpha1", "kAlpha2", "kBeta",
                              "ratioKAlpha2KAlpha1">>))])

\* lines 153-161: the name attribute, tension and current of xRayTube t
MdTubeValues(t, ns, st) ==
    With([s1 \in {IF \E a \in t.attrib : a.k = "name"
         THEN [st EXCEPT !.md = Put(@, "tube_type",
                  MStr(<<StrTok((CHOOSE a \in t.attrib : a.k = "name").v)>>))]
         ELSE st} |->
    With([s2 \in {PutText(s1, ElemText(t, find(t, ns, "tension")), "voltage")} |->
    PutText(s2, ElemText(t, find(t, ns, "current")), "current")])])

\* lines 151-161: xRayTube of the incidentBeamPath block ib
MdTube(ib, ns, st) ==
    With([tube \in {find(ib, ns, "xRayTube")} |->
        IF tube = 0 THEN Looked(st, <<"xRayTube">>)
        ELSE MdTubeValues(ib.children[tube], ns,
                          Looked(st, <<"xRayTube", "tension", "current">>))])

\* mutant: the block without its try/except, so that the error of
\* float(radius.text) leaves get_metadata
MdRadiusUnguarded(ib, ns, st) ==
    With([s1 \in {PutFloat(st, ElemText(ib, find(ib, ns, "radius")), "gonio_radius")} |->
        IF s1.exc.type # "" THEN s1 ELSE MdTube(ib, ns, s1)])

\* mutant: the try block holds the radius conversion alone, and the tube is
\* read after the default is set
MdRadiusThenTube(ib, ns, st) ==
    With([s1 \in {PutFloat(st, ElemText(ib, find(ib, ns, "radius")), "gonio_radius")} |->
        IF s1.exc.type # ""
        THEN MdTube(ib, ns,
                    [st EXCEPT !.md = Put(@, "gonio_radius", MNum(RInt(DefaultGonioRadius)))])
        ELSE MdTube(ib, ns, s1)])

\* lines 147-163: radius, then the tube; an exception raised inside the try
\* block (float(radius.text)) ends the block and sets the default radius
MdRadius(ib, ns, st) ==
    With([s1 \in {PutFloat(st, ElemText(ib, find(ib, ns, "radius")), "gonio_radius")} |->
        IF s1.exc.type # ""
        THEN [st EXCEPT !.md = Put(@, "gonio_radius", MNum(RInt(DefaultGonioRadius)))]
        ELSE MdTube(ib, ns, s1)])

\* lines 143-163: the try block over incidentBeamPath
MdIncidentBeam(xm, ns, st) ==
    With([incident_beam \in {find(xm, ns, "incidentBeamPath")} |->
        IF incident_beam = 0 THEN Looked(st, <<"incidentBeamPath">>)
        ELSE MdRadius(xm.children[incident_beam], ns,
                      Looked(st, <<"incidentBeamPath", "radius">>))])

\* lines 123-163: the first xrdMeasurement block under the root
MdMeasurement(root, ns, st) ==
    With([xrd_measurement \in {find(root, ns, "xrdMeasurement")} |->
        IF xrd_measurement = 0 THEN Looked(st, <<"xrdMeasurement">>)
        ELSE With([s1 \in {MdWavelength(root.children[xrd_measurement], ns,
                               Looked(st, <<"xrdMeasurement">>))} |->
                 IF s1.exc.type # "" THEN s1
                 ELSE MdIncidentBeam(root.children[xrd_measurement], ns, s1)])])

\* lines 168-174: the time stamps of header h
MdHeaderValues(h, ns, st) ==
    With([s1 \in {PutText(st, ElemText(h, find(h, ns, "startTimeStamp")), "start_time")} |->
    PutText(s1, ElemText(h, find(h, ns, "endTimeStamp")), "end_time")])

\* lines 165-174: the header of the selected scan
MdHeader(scan, ns, st) ==
    IF st.exc.type # "" THEN st
    ELSE With([header \in {find(scan, ns, "header")} |->
            IF header = 0 THEN Looked(st, <<"header">>)
            ELSE MdHeaderValues(scan.children[header], ns,
                     Looked(st, <<"header", "startTimeStamp", "endTimeStamp">>))])

\* mutant: temp_values[0] in place of temp_values[-1]
MdTemperatureFirst(text, st) ==
    IF Truthy(text) /\ text.toks # <<>>
    THEN PutFloat(st, Text(<<text.toks[1]>>), "temperature")
    ELSE st

\* lines 181-186: metadata['temperature'] = float(values.text.split()[-1])
MdTemperature(text, st) ==
    IF Truthy(text) /\ text.toks # <<>>
    THEN PutFloat(st, Text(<<text.toks[Len(text.toks)]>>), "temperature")
    ELSE st

\* lines 176-186: the temperature is the last value of a nonAmbientPoints
\* block of type "Temperature"
MdConditions(scan, ns, st) ==
    IF st.exc.type # "" THEN st
    ELSE With([conditions \in {find(scan, ns, "nonAmbientPoints")} |->
            IF conditions = 0 \/
               ~(\E a \in scan.children[conditions].attrib :
                     a.k = "type" /\ a.v = "Temperature")
            THEN Looked(st, <<"nonAmbientPoints">>)
            ELSE MdTemperature(
                     ElemText(scan.children[conditions],
                              find(scan.children[conditions], ns, "nonAmbientValues")),
                     Looked(st, <<"nonAmbientPoints", "nonAmbientValues">>))])

\* the i-th child of the root is a measurement block that holds the scan
OwnsScan(root, scan, ns) ==
    [i \in 1..Len(root.children) |->
        /\ root.children[i].tag = QName(ns, "xrdMeasurement")
        /\ \E j \in 1..Len(root.children[i].children) :
               root.children[i].children[j] = scan]

\* mutant: the measurement block is the one that holds the scan selected
MdAllOwnBlock(root, scan, ns) ==
    With([own \in {With([owns \in {OwnsScan(root, scan, ns)} |->
                       IF \E i \in DOMAIN owns : owns[i]
                       THEN <<CHOOSE i \in DOMAIN owns :
                                  owns[i] /\ \A k \in DOMAIN owns : owns[k] => i <= k>>
                       ELSE <<>>])} |->
    With([s1 \in {MdSample(root, ns, MdStart)} |->
    With([s2 \in {IF own = <<>> THEN MdMeasurement(root, ns, s1)
                  ELSE With([sw \in {MdWavelength(root.children[own[1]], ns,
                                         Looked(s1, <<"xrdMeasurement">>))} |->
                           IF sw.exc.type # "" THEN sw
                           ELSE MdIncidentBeam(root.children[own[1]], ns, sw)])} |->
    With([s3 \in {MdHeader(scan, ns, s2)} |->
    With([s4 \in {MdConditions(scan, ns, s3)} |->
        IF s4.exc.type # ""
        THEN [raised |-> TRUE, error |-> s4.exc, metadata |-> {}, lookups |-> s4.lk]
        ELSE [raised |-> FALSE, error |-> NoError, metadata |-> s4.md,
              lookups |-> s4.lk]])])])])])

\* lines 112-188 for the scan element selected
MdAll(root, scan, ns) ==
    With([s1 \in {MdSample(root, ns, MdStart)} |->
    With([s2 \in {MdMeasurement(root, ns, s1)} |->
    With([s3 \in {MdHeader(scan, ns, s2)} |->
    With([s4 \in {MdConditions(scan, ns, s3)} |->
        IF s4.exc.type # ""
        THEN [raised |-> TRUE, error |-> s4.exc, metadata |-> {}, lookups |-> s4.lk]
        ELSE [raised |-> FALSE, error |-> NoError, metadata |-> s4.md,
              lookups |-> s4.lk]])])])])

\* XRDMLReader.get_metadata(scan_index)
get_metadata(reader, scan_index) ==
    IF scan_index >= Len(reader.scans)
    THEN [raised |-> TRUE, error |-> ScanIndexError(scan_index, Len(reader.scans)),
          metadata |-> {}, lookups |-> <<>>]
    ELSE With([item \in {ScansItem(reader, scan_index)} |->
            IF ~item.ok
            THEN [raised |-> TRUE,
                  error |-> Error("IndexError", "list index out of range"),
                  metadata |-> {}, lookups |-> <<>>]
            ELSE MdAll(reader.root, Deref(reader.root, item.handle),
                       reader.namespace)])

(* ------------------------------- series ------------------------------- *)
RsRaise(err, lk) ==
    [raised |-> TRUE, error |-> err, two_theta |-> <<>>, intensities |-> <<>>,
     metadata |-> {}, lookups |-> lk]

\* mutant: "intensities = np.array([])" in place of "intensities = None", so
\* that a scan without intensity text gives an empty series
FindIntensitiesOrEmpty(data_points, ns, strict) ==
    With([t1 \in {ElemText(data_points, find(data_points, ns, "intensities"))} |->
        IF Truthy(t1)
        THEN [found |-> TRUE, lk |-> <<"intensities">>,
              parsed |-> FromString(t1, strict)]
        ELSE With([t2 \in {ElemText(data_points, find(data_points, ns, "counts"))} |->
                IF Truthy(t2)
                THEN [found |-> TRUE, lk |-> <<"intensities", "counts">>,
                      parsed |-> FromString(t2, strict)]
                ELSE [found |-> TRUE, lk |-> <<"intensities", "counts">>,
                      parsed |-> [ok |-> TRUE, type |-> "", arr |-> <<>>]]])])

\* mutant: "for tag in ['counts', 'intensities']"
FindIntensitiesCountsFirst(data_points, ns, strict) ==
    With([t1 \in {ElemText(data_points, find(data_points, ns, "counts"))} |->
        IF Truthy(t1)
        THEN [found |-> TRUE, lk |-> <<"counts">>,
              parsed |-> FromString(t1, strict)]
        ELSE With([t2 \in {ElemText(data_points, find(data_points, ns, "intensities"))} |->
                IF Truthy(t2)
                THEN [found |-> TRUE, lk |-> <<"counts", "intensities">>,
                      parsed |-> FromString(t2, strict)]
                ELSE [found |-> FALSE, lk |-> <<"counts", "intensities">>,
                      parsed |-> [ok |-> TRUE, type |-> "", arr |-> <<>>]]])])

\* lines 232-238: for tag in ['intensities', 'counts']: the first element
\* with text is parsed by np.fromstring.  found = FALSE: intensities is None
FindIntensities(data_points, ns, strict) ==
    With([t1 \in {ElemText(data_points, find(data_points, ns, "intensities"))} |->
        IF Truthy(t1)
        THEN [found |-> TRUE, lk |-> <<"intensities">>,
              parsed |-> FromString(t1, strict)]
        ELSE With([t2 \in {ElemText(data_points, find(data_points, ns, "counts"))} |->
                IF Truthy(t2)
                THEN [found |-> TRUE, lk |-> <<"intensities", "counts">>,
                      parsed |-> FromString(t2, strict)]
                ELSE [found |-> FALSE, lk |-> <<"intensities", "counts">>,
                      parsed |-> [ok |-> TRUE, type |-> "", arr |-> <<>>]]])])

\* mutant: the number of steps in place of the number of points
NPointsSteps(intensities) ==
    IF Len(intensities) = 0 THEN 0 ELSE Len(intensities) - 1

\* line 244: n_points = len(intensities)
NPoints(intensities) == Len(intensities)

\* mutant: np.linspace(start_pos, end_pos, n_points, endpoint=False)
TwoThetaNoEndpoint(start_pos, end_pos, n_points) ==
    [k \in 1..n_points |->
        RAdd(RMul(RInt(k - 1), RDiv(RSub(end_pos, start_pos), RInt(n_points))),
             start_pos)]

\* mutant: np.linspace(end_pos, start_pos, n_points)
TwoThetaReversed(start_pos, end_pos, n_points) ==
    Linspace(end_pos, start_pos, n_points)

\* line 245: two_theta = np.linspace(start_pos, end_pos, n_points)
TwoTheta(start_pos, end_pos, n_points) == Linspace(start_pos, end_pos, n_points)

\* lines 243-250: the axis, then the metadata, then the returned tuple
ReadAxis(reader, scan_index, start_pos, end_pos, intensities, lk) ==
    With([md \in {get_metadata(reader, scan_index)} |->
        IF md.raised THEN RsRaise(md.error, lk \o md.lookups)
        ELSE [raised |-> FALSE, error |-> NoError,
              two_theta |-> TwoTheta(start_pos, end_pos, NPoints(intensities)),
              intensities |-> intensities,
              metadata |-> md.metadata, lookups |-> lk \o md.lookups]])

\* lines 232-250: the intensities, then the rest
ReadIntensities(reader, scan_index, data_points, start_pos, end_pos, lk, strict) ==
    With([fi \in {FindIntensities(data_points, reader.namespace, strict)} |->
        IF ~fi.found
        THEN RsRaise(Error("ValueError", "Intensity data could not be located"),
                     lk \o fi.lk)
        ELSE IF ~fi.parsed.ok
        THEN RsRaise(Error(fi.parsed.type, "np.fromstring"), lk \o fi.lk)
        ELSE ReadAxis(reader, scan_index, start_pos, end_pos, fi.parsed.arr,
                      lk \o fi.lk)])

\* lines 223-250 of read_scan, from the positions element on
ReadSeries(reader, scan_index, data_points, positions, lk0, strict) ==
    With([start_pos_elem \in {find(positions, reader.namespace, "startPosition")} |->
    With([end_pos_elem \in {find(positions, reader.namespace, "endPosition")} |->
    With([lk1 \in {lk0 \o <<"startPosition", "endPosition">>} |->
        IF start_pos_elem = 0 \/ end_pos_elem = 0
        THEN RsRaise(Error("ValueError", "Start or end position not found"), lk1)
        ELSE
        With([start_pos \in {PyFloat(positions.children[start_pos_elem].text)} |->
        With([end_pos \in {PyFloat(positions.children[end_pos_elem].text)} |->
            IF ~start_pos.ok
            THEN RsRaise(Error(start_pos.type, "float(start_pos_elem.text)"), lk1)
            ELSE IF ~end_pos.ok
            THEN RsRaise(Error(end_pos.type, "float(end_pos_elem.text)"), lk1)
            ELSE ReadIntensities(reader, scan_index, data_points, start_pos.val,
                                 end_pos.val, lk1, strict)])])])])])

\* mutant: the metadata are extracted first, the series after
ReadScanElementMetadataFirst(reader, scan_index, scan, strict) ==
    With([md \in {get_metadata(reader, scan_index)} |->
        IF md.raised THEN RsRaise(md.error, md.lookups)
        ELSE With([data_points \in {find(scan, reader.namespace, "dataPoints")} |->
                IF data_points = 0
                THEN RsRaise(Error("ValueError", "No dataPoints element found in scan"),
                             md.lookups \o <<"dataPoints">>)
                ELSE
                With([dp \in {scan.children[data_points]} |->
                With([positions \in {find(dp, reader.namespace, "positions")} |->
                    IF positions = 0
                    THEN RsRaise(Error("ValueError",
                                       "No positions element found in dataPoints"),
                                 md.lookups \o <<"dataPoints", "positions">>)
                    ELSE ReadSeries(reader, scan_index, dp, dp.children[positions],
                                    md.lookups \o <<"dataPoints", "positions">>,
                                    strict)])])])])

\* lines 213-250 of read_scan for the scan element selected
ReadScanElement(reader, scan_index, scan, strict) ==
    With([data_points \in {find(scan, reader.namespace, "dataPoints")} |->
        IF data_points = 0
        THEN RsRaise(Error("ValueError", "No dataPoints element found in scan"),
                     <<"dataPoints">>)
        ELSE
        With([dp \in {scan.children[data_points]} |->
        With([positions \in {find(dp, reader.namespace, "positions")} |->
            IF positions = 0
            THEN RsRaise(Error("ValueError", "No positions element found in dataPoints"),
                         <<"dataPoints", "positions">>)
            ELSE ReadSeries(reader, scan_index, dp, dp.children[positions],
                            <<"dataPoints", "positions">>, strict)])])])

\* mutant: "scan_index > len(self.scans)" in place of ">="
read_scan_off_by_one(reader, scan_index, strict) ==
    IF scan_index > Len(reader.scans)
    THEN RsRaise(ScanIndexError(scan_index, Len(reader.scans)), <<>>)
    ELSE With([item \in {ScansItem(reader, scan_index)} |->
            IF ~item.ok
            THEN RsRaise(Error("IndexError", "list index out of range"), <<>>)
            ELSE With([scan \in {Deref(reader.root, item.handle)} |->
                     ReadScanElement(reader, scan_index, scan, strict)])])

\* XRDMLReader.read_scan(scan_index)
read_scan(reader, scan_index, strict) ==
    IF scan_index >= Len(reader.scans)
    THEN RsRaise(ScanIndexError(scan_index, Len(reader.scans)), <<>>)
    ELSE With([item \in {ScansItem(reader, scan_index)} |->
            IF ~item.ok
            THEN RsRaise(Error("IndexError", "list index out of range"), <<>>)
            ELSE With([scan \in {Deref(reader.root, item.handle)} |->
                     ReadScanElement(reader, scan_index, scan, strict)])])

\* np.column_stack((two_theta, intensities)): one row per point
ColumnStack(two_theta, intensities) ==
    [k \in 1..Len(two_theta) |-> <<two_theta[k], intensities[k]>>]

\* lines 286-289 and 322-325: if normalize: ... (see Normalize)
MaybeNormalize(intensities, normalize) ==
    IF normalize THEN Normalize(intensities)
    ELSE [ok |-> TRUE, type |-> "", arr |-> intensities]

\* XRDMLReader.to_array(scan_index, normalize)
to_array(reader, scan_index, normalize, strict) ==
    With([rs \in {read_scan(reader, scan_index, strict)} |->
        IF rs.raised
        THEN [raised |-> TRUE, error |-> rs.error, array |-> <<>>,
              lookups |-> rs.lookups]
        ELSE With([nz \in {MaybeNormalize(rs.intensities, normalize)} |->
                IF ~nz.ok
                THEN [raised |-> TRUE,
                      error |-> Error(nz.type, "zero-size array to reduction operation maximum"),
                      array |-> <<>>, lookups |-> rs.lookups]
                ELSE [raised |-> FALSE, error |-> NoError,
                      array |-> ColumnStack(rs.two_theta, nz.arr),
                      lookups |-> rs.lookups]])])

\* mutant: the normalize argument is ignored
ReadUnnormalized(reader, scan_index, normalize, strict) ==
    read_scan(reader, scan_index, strict)

\* lines 320-327 of read_xrdml on the reader it has constructed
ReadNormalized(reader, scan_index, normalize, strict) ==
    With([rs \in {read_scan(reader, scan_index, strict)} |->
        IF rs.raised THEN rs
        ELSE With([nz \in {MaybeNormalize(rs.intensities, normalize)} |->
                IF ~nz.ok
                THEN RsRaise(Error(nz.type, "zero-size array to reduction operation maximum"),
                             rs.lookups)
                ELSE [rs EXCEPT !.intensities = nz.arr]])])

\* read_xrdml(filepath, scan_index, normalize); parsed is TRUE once the
\* reader has been constructed, and available is its number of scans
read_xrdml(f, scan_index, normalize, strict) ==
    With([pf \in {parse_file(f)} |->
        IF pf.raised
        THEN [parsed |-> FALSE, available |-> 0, steps |-> pf.steps,
              rs |-> RsRaise(pf.error, <<>>)]
        ELSE [parsed |-> TRUE, available |-> get_num_scans(pf.reader),
              steps |-> pf.steps,
              rs |-> ReadNormalized(pf.reader, scan_index, normalize, strict)]])

RECURSIVE ReadFromSkipping(_, _, _)
\* mutant: a scan that raises is skipped and the others are returned
ReadFromSkipping(reader, i, strict) ==
    IF i >= Len(reader.scans)
    THEN [raised |-> FALSE, error |-> NoError, list |-> <<>>]
    ELSE With([rs \in {read_scan(reader, i, strict)} |->
         With([rest \in {ReadFromSkipping(reader, i + 1, strict)} |->
            IF rs.raised THEN rest
            ELSE [raised |-> FALSE, error |-> NoError,
                  list |-> <<[two_theta |-> rs.two_theta,
                              intensities |-> rs.intensities,
                              metadata |-> rs.metadata]>> \o rest.list]])])

RECURSIVE ReadFrom(_, _, _)
\* for i in range(len(self.scans)): results.append(self.read_scan(i)), from
\* index i on; the first scan that raises ends the call
ReadFrom(reader, i, strict) ==
    IF i >= Len(reader.scans)
    THEN [raised |-> FALSE, error |-> NoError, list |-> <<>>]
    ELSE With([rs \in {read_scan(reader, i, strict)} |->
            IF rs.raised
            THEN [raised |-> TRUE, error |-> rs.error, list |-> <<>>]
            ELSE With([rest \in {ReadFrom(reader, i + 1, strict)} |->
                    IF rest.raised THEN rest
                    ELSE [raised |-> FALSE, error |-> NoError,
                          list |-> <<[two_theta |-> rs.two_theta,
                                      intensities |-> rs.intensities,
                                      metadata |-> rs.metadata]>> \o rest.list]])])

\* mutant: a reader without scans is an error
read_all_scans_nonempty(reader, strict) ==
    IF Len(reader.scans) = 0
    THEN [raised |-> TRUE, error |-> Error("ValueError", "No scans found"),
          list |-> <<>>]
    ELSE ReadFrom(reader, 0, strict)

\* XRDMLReader.read_all_scans()
read_all_scans(reader, strict) == ReadFrom(reader, 0, strict)

(* ----------------------------- documents ------------------------------ *)
\* the namespace URI of namespaced documents
NsUri == "http://www.xrdml.com/XRDMeasurement/1.0"

Word(s) == Text(<<StrTok(s)>>)
Number(r) == Text(<<NumTok(r)>>)
RECURSIVE NumToks(_)
NumToks(ints) ==
    IF ints = <<>> THEN <<>>
    ELSE <<NumTok(RInt(Head(ints)))>> \o NumToks(Tail(ints))

Comment(ns) == El(ns, "comment", NoText, <<El(ns, "entry", Word("cfg"), <<>>)>>)
Sample(ns) == El(ns, "sample", NoText, <<El(ns, "id", Word("LCO"), <<>>)>>)
UsedWavelength(ns) ==
    El(ns, "usedWavelength", NoText,
       <<El(ns, "kAlpha1", Number(Rat(15406, 10000)), <<>>),
         El(ns, "kAlpha2", Number(Rat(15444, 10000)), <<>>),
         El(ns, "kBeta", Number(Rat(13923, 10000)), <<>>),
         El(ns, "ratioKAlpha2KAlpha1", Number(Rat(1, 2)), <<>>)>>)
IncidentBeamPath(ns) ==
    El(ns, "incidentBeamPath", NoText,
       <<El(ns, "radius", Number(RInt(240)), <<>>),
         ElA(ns, "xRayTube", {[k |-> "name", v |-> "Cu"]}, NoText,
             <<El(ns, "tension", Word("45"), <<>>),
               El(ns, "current", Word("40"), <<>>)>>)>>)
Header(ns) ==
    El(ns, "header", NoText,
       <<El(ns, "startTimeStamp", Word("t0"), <<>>),
         El(ns, "endTimeStamp", Word("t1"), <<>>)>>)
DataPoints(ns, start, end, itext) ==
    El(ns, "dataPoints", NoText,
       <<El(ns, "positions", NoText,
            <<El(ns, "startPosition", start, <<>>),
              El(ns, "endPosition", end, <<>>)>>),
         El(ns, "intensities", itext, <<>>)>>)
\* a scan, with the elements in extra as further children
ScanEl(ns, start, end, itext, extra) ==
    El(ns, "scan", NoText, <<Header(ns), DataPoints(ns, start, end, itext)>> \o extra)
Measurement(ns, scans) ==
    El(ns, "xrdMeasurement", NoText,
       <<UsedWavelength(ns), IncidentBeamPath(ns)>> \o scans)
Root(ns, children) == El(ns, "xrdMeasurements", NoText, children)

\* what is at the path: nothing, text that is not well-formed XML (with
\* the diagnostic expat gives for it), or a document
File(root) == [exists |-> TRUE, wellformed |-> TRUE, root |-> root, diagnostic |-> ""]
MissingFile == [exists |-> FALSE, wellformed |-> FALSE, root |-> NoElem, diagnostic |-> ""]
CorruptFile(diagnostic) ==
    [exists |-> TRUE, wellformed |-> FALSE, root |-> NoElem, diagnostic |-> diagnostic]
ParseDiagnostics ==
    {"no element found: line 1, column 0", "mismatched tag: line 3, column 2",
     "not well-formed (invalid token): line 1, column 1"}

\* declared positions: 10, 12.5 and 20
PositionValues == {RInt(10), Rat(25, 2), RInt(20)}

\* intensity texts: every series of 1..MaxLen samples from -1..MaxIntensity,
\* whitespace only, and text with a word that is no number
IntensityTexts ==
    {Text(NumToks(s)) : s \in UNION {[1..n -> -1..MaxIntensity] : n \in 1..MaxLen}}
    \union {Text(<<>>), Word("x"),
            Text(<<NumTok(RInt(1)), StrTok("x"), NumTok(RInt(2))>>)}

\* one unqualified measurement block with one scan
SeriesDoc(start, end, itext) ==
    Root("", <<Comment(""), Sample(""),
               Measurement("", <<ScanEl("", Number(start), Number(end), itext, <<>>)>>)>>)

\* every pair of declared positions, with 1..MaxLen+2 samples 1 2 3 ...
AxisDocs ==
    {SeriesDoc(s, e, Text(NumToks([k \in 1..n |-> k]))) :
        s \in PositionValues, e \in PositionValues, n \in 1..(MaxLen + 2)}

\* every intensity text, over the range 10 .. 20
NormDocs == {SeriesDoc(RInt(10), RInt(20), it) : it \in IntensityTexts}

\* startPosition 10.0, endPosition 20.0, samples 1 2 3 4 5
ScenarioDoc == SeriesDoc(RInt(10), RInt(20), Text(NumToks(<<1, 2, 3, 4, 5>>)))

\* the j-th scan of the m-th block declares the range 10m+j .. 10m+j+10;
\* with strays, the first scan of a block nests a further scan element
LayoutScan(ns, m, j, strays) ==
    ScanEl(ns, Number(RInt(10 * m + j)), Number(RInt(10 * m + j + 10)),
           Text(NumToks(<<m, j>>)),
           IF strays /\ j = 1
           THEN <<ScanEl(ns, Number(RInt(0)), Number(RInt(1)), Text(NumToks(<<0>>)), <<>>)>>
           ELSE <<>>)

\* layout[m] is the number of scans of the m-th measurement block.  With
\* strays the root also holds a scan of its own and a wrapper element that
\* nests a measurement block.
LayoutDoc(rootNs, commentNs, hasComment, childNs, layout, strays) ==
    Root(rootNs,
         (IF strays
          THEN <<ScanEl(childNs, Number(RInt(0)), Number(RInt(1)), Text(NumToks(<<0>>)), <<>>)>>
          ELSE <<>>)
         \o (IF hasComment THEN <<Comment(commentNs)>> ELSE <<>>)
         \o <<Sample(childNs)>>
         \o [m \in 1..Len(layout) |->
                Measurement(childNs,
                    [j \in 1..layout[m] |-> LayoutScan(childNs, m, j, strays)])]
         \o (IF strays
             THEN <<El(childNs, "wrapper", NoText,
                       <<Measurement(childNs, <<LayoutScan(childNs, 9, 1, FALSE)>>)>>)>>
             ELSE <<>>))

Layouts == UNION {[1..m -> 0..MaxScansPer] : m \in 0..MaxMeasurements}

\* documents in one namespace throughout: every layout, with and without
\* stray elements
LayoutDocs ==
    {LayoutDoc(ns, ns, TRUE, ns, layout, strays) :
        ns \in {"", NsUri}, layout \in Layouts, strays \in BOOLEAN}

\* documents that mix qualified and unqualified elements, or lack the
\* comment element
NamespaceDocs ==
    {LayoutDoc(rootNs, commentNs, hasComment, childNs, layout, FALSE) :
        rootNs \in {"", NsUri}, commentNs \in {"", NsUri}, hasComment \in BOOLEAN,
        childNs \in {"", NsUri}, layout \in {<<>>, <<1>>, <<2, 1>>}}

\* the positions element of a scan, by kind: complete (10 .. 20), or with a
\* position element left out, without text, or holding a word
PositionsV(ns, dpKind) ==
    LET start == El(ns, "startPosition",
                    CASE dpKind = "startNoText" -> NoText
                      [] dpKind = "startWord" -> Word("x")
                      [] OTHER -> Number(RInt(10)), <<>>)
        end == El(ns, "endPosition",
                  CASE dpKind = "endNoText" -> NoText
                    [] dpKind = "endWord" -> Word("x")
                    [] OTHER -> Number(RInt(20)), <<>>)
    IN  CASE dpKind = "noPositions" -> <<>>
          [] dpKind = "noStart" -> <<El(ns, "positions", NoText, <<end>>)>>
          [] dpKind = "noEnd" -> <<El(ns, "positions", NoText, <<start>>)>>
          [] dpKind = "noStartNoEnd" -> <<El(ns, "positions", NoText, <<>>)>>
          [] OTHER -> <<El(ns, "positions", NoText, <<start, end>>)>>

\* the intensity elements of a dataPoints block, by kind; an intensities
\* element holds "1 2" and a counts element "2 1 0"
IntensityV(ns, inKind) ==
    LET i12 == El(ns, "intensities", Text(NumToks(<<1, 2>>)), <<>>)
        c210 == El(ns, "counts", Text(NumToks(<<2, 1, 0>>)), <<>>)
    IN  CASE inKind = "intensities" -> <<i12>>
          [] inKind = "counts" -> <<c210>>
          [] inKind = "both" -> <<i12, c210>>
          [] inKind = "countsFirst" -> <<c210, i12>>
          [] inKind = "emptyThenCounts" -> <<El(ns, "intensities", NoText, <<>>), c210>>
          [] inKind = "blankThenCounts" -> <<El(ns, "intensities", Text(<<>>), <<>>), c210>>
          [] inKind = "bothEmpty" ->
                 <<El(ns, "intensities", NoText, <<>>), El(ns, "counts", NoText, <<>>)>>
          [] inKind = "emptyAlone" -> <<El(ns, "intensities", NoText, <<>>)>>
          [] OTHER -> <<>>

PositionKinds ==
    {"full", "none", "noPositions", "noStart", "noEnd", "noStartNoEnd",
     "startNoText", "endNoText", "startWord", "endWord"}
IntensityKinds ==
    {"intensities", "counts", "both", "countsFirst", "emptyThenCounts",
     "blankThenCounts", "bothEmpty", "emptyAlone", "none"}

\* the dataPoints block of a scan ("none": the scan has no such block)
DataPointsV(ns, dpKind, inKind) ==
    IF dpKind = "none" THEN <<>>
    ELSE <<El(ns, "dataPoints", NoText, PositionsV(ns, dpKind) \o IntensityV(ns, inKind))>>

XRayTube(ns) ==
    ElA(ns, "xRayTube", {[k |-> "name", v |-> "Cu"]}, NoText,
        <<El(ns, "tension", Word("45"), <<>>), El(ns, "current", Word("40"), <<>>)>>)

\* the incidentBeamPath block of a measurement, by the kind of its radius
IncidentBeamV(ns, radKind) ==
    CASE radKind = "noBlock" -> <<>>
      [] radKind = "noRadius" -> <<El(ns, "incidentBeamPath", NoText, <<XRayTube(ns)>>)>>
      [] OTHER ->
           <<El(ns, "incidentBeamPath", NoText,
                <<El(ns, "radius",
                     CASE radKind = "noText" -> NoText
                       [] radKind = "blank" -> Text(<<>>)
                       [] radKind = "word" -> Word("r")
                       [] radKind = "twoNumbers" -> Text(NumToks(<<240, 1>>))
                       [] OTHER -> Number(RInt(240)), <<>>),
                  XRayTube(ns)>>)>>

RadiusKinds == {"number", "noBlock", "noRadius", "noText", "blank", "word", "twoNumbers"}

\* a nonAmbientPoints block of the type given, with the values text given
NonAmbient(ns, attrib, values) ==
    ElA(ns, "nonAmbientPoints", attrib, NoText, values)
TypeAttr(type) == {[k |-> "type", v |-> type]}
\* "299.1 300.4 301.0"
Temperatures == <<NumTok(Rat(2991, 10)), NumTok(Rat(1502, 5)), NumTok(RInt(301))>>

\* the nonAmbientPoints blocks of a scan, by kind
ConditionsV(ns, tempKind) ==
    LET vals(text) == <<El(ns, "nonAmbientValues", text, <<>>)>>
    IN  CASE tempKind = "three" -> <<NonAmbient(ns, TypeAttr("Temperature"), vals(Text(Temperatures)))>>
          [] tempKind = "two" ->
                 <<NonAmbient(ns, TypeAttr("Temperature"),
                              vals(Text(SubSeq(Temperatures, 1, 2))))>>
          [] tempKind = "one" ->
                 <<NonAmbient(ns, TypeAttr("Temperature"),
                              vals(Text(SubSeq(Temperatures, 1, 1))))>>
          [] tempKind = "pressure" -> <<NonAmbient(ns, TypeAttr("Pressure"), vals(Text(Temperatures)))>>
          [] tempKind = "noType" -> <<NonAmbient(ns, {}, vals(Text(Temperatures)))>>
          [] tempKind = "noValues" -> <<NonAmbient(ns, TypeAttr("Temperature"), <<>>)>>
          [] tempKind = "valuesNoText" -> <<NonAmbient(ns, TypeAttr("Temperature"), vals(NoText))>>
          [] tempKind = "valuesBlank" -> <<NonAmbient(ns, TypeAttr("Temperature"), vals(Text(<<>>)))>>
          [] tempKind = "pressureThenTemperature" ->
                 <<NonAmbient(ns, TypeAttr("Pressure"), vals(Text(SubSeq(Temperatures, 1, 1)))),
                   NonAmbient(ns, TypeAttr("Temperature"), vals(Text(Temperatures)))>>
          [] tempKind = "wordLast" ->
                 <<NonAmbient(ns, TypeAttr("Temperature"),
                              vals(Text(SubSeq(Temperatures, 1, 2) \o <<StrTok("x")>>)))>>
          [] tempKind = "wordFirst" ->
                 <<NonAmbient(ns, TypeAttr("Temperature"),
                              vals(Text(<<StrTok("x")>> \o SubSeq(Temperatures, 2, 3))))>>
          [] OTHER -> <<>>

TemperatureKinds ==
    {"none", "three", "two", "one", "pressure", "noType", "noValues",
     "valuesNoText", "valuesBlank", "pressureThenTemperature", "wordLast",
     "wordFirst"}

\* one measurement block with one scan, each part of the kind given
VariantDoc(ns, dpKind, inKind, radKind, tempKind) ==
    Root(ns, <<Comment(ns), Sample(ns),
               El(ns, "xrdMeasurement", NoText,
                  <<UsedWavelength(ns)>> \o IncidentBeamV(ns, radKind)
                  \o <<El(ns, "scan", NoText,
                          <<Header(ns)>> \o DataPointsV(ns, dpKind, inKind)
                          \o ConditionsV(ns, tempKind))>>)>>)

\* scans with a defective or missing series element, each with every kind
\* of intensity element
SeriesVariantDocs ==
    {VariantDoc(ns, dpKind, inKind, "number", "none") :
        ns \in {"", NsUri}, dpKind \in PositionKinds, inKind \in IntensityKinds}

\* every kind of radius with every kind of temperature block, over a scan
\* with and without intensity data
MetadataVariantDocs ==
    {VariantDoc("", "full", inKind, radKind, tempKind) :
        inKind \in {"intensities", "none"}, radKind \in RadiusKinds,
        tempKind \in TemperatureKinds}

RECURSIVE Requalify(_, _, _)
\* elem with every descendant of the local name given moved to namespace ns
Requalify(elem, name, ns) ==
    [elem EXCEPT !.children =
        [i \in 1..Len(elem.children) |->
            With([c \in {Requalify(elem.children[i], name, ns)} |->
                IF c.tag.name = name THEN [c EXCEPT !.tag = QName(ns, name)] ELSE c])]]

\* the local names of the elements that the queries look up
LookupNames ==
    {"sample", "id", "xrdMeasurement", "usedWavelength", "kAlpha1", "kAlpha2",
     "kBeta", "ratioKAlpha2KAlpha1", "incidentBeamPath", "radius", "xRayTube",
     "tension", "current", "scan", "header", "startTimeStamp", "endTimeStamp",
     "dataPoints", "positions", "startPosition", "endPosition", "intensities",
     "counts", "nonAmbientPoints", "nonAmbientValues"}

OtherNs(ns) == IF ns = "" THEN NsUri ELSE ""

\* a complete document of the namespace ns, under a root of the namespace
\* rootNs, in which the elements of one name are in the other namespace
MixedDoc(rootNs, ns, name) ==
    [Requalify(VariantDoc(ns, "full", "both", "number", "three"), name, OtherNs(ns))
        EXCEPT !.tag = QName(rootNs, "xrdMeasurements")]

\* a namespaced root with a namespaced or an unqualified comment element,
\* and an unqualified root, each with one kind of element out of line
MixedDocs ==
    {MixedDoc(NsUri, ns, name) : ns \in {"", NsUri}, name \in LookupNames}
        \union {MixedDoc("", "", name) : name \in LookupNames}

\* documents whose only comment element is nested in a wrapper element
NestedCommentDocs ==
    {Root(ns, <<El(ns, "wrapper", NoText, <<Comment(ns)>>), Sample(ns),
                Measurement(ns, <<LayoutScan(ns, 1, 1, FALSE)>>)>>) :
        ns \in {"", NsUri}}

\* the optional sources of get_metadata: the elements (and the name
\* attribute of xRayTube) whose text becomes a metadata value, and the
\* blocks that hold them
OptionalLeaves ==
    {"id", "kAlpha1", "kAlpha2", "kBeta", "ratioKAlpha2KAlpha1", "radius",
     "name", "tension", "current", "startTimeStamp", "endTimeStamp",
     "nonAmbientValues"}
OptionalBlocks ==
    {"sample", "usedWavelength", "incidentBeamPath", "xRayTube", "header",
     "nonAmbientPoints"}

\* the element of the name given with the text given: left out when the
\* name is in absent, without text when it is in textless
Optional(name, text, absent, textless) ==
    IF name \in absent THEN <<>>
    ELSE <<El("", name, IF name \in textless THEN NoText ELSE text, <<>>)>>

\* the block of the name given with the children given, unless absent
OptionalBlock(name, attrib, children, absent) ==
    IF name \in absent THEN <<>> ELSE <<ElA("", name, attrib, NoText, children)>>

\* a complete unqualified document with one scan, without the sources
\* named in absent and without the text of those named in textless
OptionalDoc(absent, textless) ==
    LET leaf(name, text) == Optional(name, text, absent, textless)
    IN  Root("",
          <<Comment("")>>
          \o OptionalBlock("sample", {}, leaf("id", Word("LCO")), absent)
          \o <<El("", "xrdMeasurement", NoText,
                OptionalBlock("usedWavelength", {},
                    leaf("kAlpha1", Number(Rat(15406, 10000)))
                    \o leaf("kAlpha2", Number(Rat(15444, 10000)))
                    \o leaf("kBeta", Number(Rat(13923, 10000)))
                    \o leaf("ratioKAlpha2KAlpha1", Number(Rat(1, 2))), absent)
                \o OptionalBlock("incidentBeamPath", {},
                    leaf("radius", Number(RInt(240)))
                    \o OptionalBlock("xRayTube",
                           IF "name" \in absent THEN {} ELSE {[k |-> "name", v |-> "Cu"]},
                           leaf("tension", Word("45")) \o leaf("current", Word("40")),
                           absent), absent)
                \o <<El("", "scan", NoText,
                        OptionalBlock("header", {},
                            leaf("startTimeStamp", Word("t0"))
                            \o leaf("endTimeStamp", Word("t1")), absent)
                        \o DataPointsV("", "full", "intensities")
                        \o OptionalBlock("nonAmbientPoints", TypeAttr("Temperature"),
                               leaf("nonAmbientValues", Text(Temperatures)),
                               absent))>>)>>)

\* every subset of the optional elements left out, every subset of them
\* without text, and every subset of the blocks left out
OptionalDocs ==
    {OptionalDoc(absent, {}) : absent \in SUBSET OptionalLeaves}
        \union {OptionalDoc({}, textless) : textless \in SUBSET (OptionalLeaves \ {"name"})}
        \union {OptionalDoc(absent, {}) : absent \in SUBSET OptionalBlocks}

\* the instrument elements of a measurement block, by kind: a copper tube
\* at radius 240, a molybdenum tube at radius 173, or none at all
InstrumentKinds == {"Cu", "Mo", "bare"}
Instrument(kind) ==
    CASE kind = "Cu" -> <<UsedWavelength(""), IncidentBeamPath("")>>
      [] kind = "Mo" ->
           <<El("", "usedWavelength", NoText,
                <<El("", "kAlpha1", Number(Rat(7093, 10000)), <<>>),
                  El("", "kAlpha2", Number(Rat(7136, 10000)), <<>>),
                  El("", "kBeta", Number(Rat(6323, 10000)), <<>>),
                  El("", "ratioKAlpha2KAlpha1", Number(Rat(1, 2)), <<>>)>>),
             El("", "incidentBeamPath", NoText,
                <<El("", "radius", Number(RInt(173)), <<>>),
                  ElA("", "xRayTube", {[k |-> "name", v |-> "Mo"]}, NoText,
                      <<El("", "tension", Word("50"), <<>>),
                        El("", "current", Word("30"), <<>>)>>)>>)>>
      [] OTHER -> <<>>

\* the time stamps of the j-th scan of the m-th block
StartStamps == <<<<"s11", "s12">>, <<"s21", "s22">>>>
EndStamps == <<<<"e11", "e12">>, <<"e21", "e22">>>>

\* the j-th scan of the m-th block: its own time stamps, the range
\* m .. m+10, the samples m j, and the temperature 100m + j
BlockScan(m, j) ==
    El("", "scan", NoText,
       <<El("", "header", NoText,
            <<El("", "startTimeStamp", Word(StartStamps[m][j]), <<>>),
              El("", "endTimeStamp", Word(EndStamps[m][j]), <<>>)>>),
         DataPoints("", Number(RInt(m)), Number(RInt(m + 10)), Text(NumToks(<<m, j>>))),
         NonAmbient("", TypeAttr("Temperature"),
                    <<El("", "nonAmbientValues", Number(RInt(100 * m + j)), <<>>)>>)>>)

\* two measurement blocks, block m with the instrument elements of kind
\* kinds[m] and counts[m] scans
BlockDoc(kinds, counts) ==
    Root("", <<Comment(""), Sample("")>>
             \o [m \in 1..2 |->
                    El("", "xrdMeasurement", NoText,
                       Instrument(kinds[m])
                       \o [j \in 1..counts[m] |-> BlockScan(m, j)])])
BlockDocs ==
    {BlockDoc(kinds, counts) :
        kinds \in [1..2 -> InstrumentKinds], counts \in [1..2 -> 1..2]}

\* one measurement block of three scans that are, in turn, of the kinds given:
\* complete, without dataPoints, or without intensity data; the k-th scan
\* declares the range k .. k+10
ScanOfKind(kind, k) ==
    El("", "scan", NoText,
       <<Header("")>>
       \o (IF kind = "noDataPoints" THEN <<>>
           ELSE <<El("", "dataPoints", NoText,
                     <<El("", "positions", NoText,
                          <<El("", "startPosition", Number(RInt(k)), <<>>),
                            El("", "endPosition", Number(RInt(k + 10)), <<>>)>>)>>
                     \o (IF kind = "noIntensities" THEN <<>>
                         ELSE <<El("", "intensities", Text(NumToks(<<k, 0>>)), <<>>)>>))>>))
ScanKinds == {"complete", "noDataPoints", "noIntensities"}
FailingScanDocs ==
    {Root("", <<Comment(""), Sample(""),
                Measurement("", [k \in 1..3 |-> ScanOfKind(kinds[k], k)])>>) :
        kinds \in [1..3 -> ScanKinds]}

Documents ==
    AxisDocs \union NormDocs \union {ScenarioDoc} \union LayoutDocs
        \union NamespaceDocs \union SeriesVariantDocs
        \union MetadataVariantDocs \union NestedCommentDocs
        \union MixedDocs

Files ==
    {MissingFile} \union {CorruptFile(d) : d \in ParseDiagnostics}
        \union {File(d) : d \in Documents}

\* scan indices passed to the operations
ScanIndices == -2 .. (MaxMeasurements * MaxScansPer)

(* --------------------------- the state machine ------------------------ *)
(* ------------------- XRDDataReader.load_xrd_dataset ------------------- *)
\* io/xrd_reader.py.  What pd.read_csv makes of the file is a table
\* [ncols, rows], rows being the rows of df.values; the file may also be
\* missing, or be one that read_csv cannot read with either separator.
\* df.values of a frame whose columns are all integers is an int64 array,
\* and a float64 array as soon as one column holds a fraction.
DType(table) ==
    IF \A r \in 1..Len(table.rows) : \A c \in 1..table.ncols : table.rows[r][c].d = 1
    THEN "int64" ELSE "float64"

\* the value an array of the dtype given stores when v is assigned to one
\* of its elements: an int64 array keeps the integer part (C truncation)
Stored(dtype, v) ==
    IF dtype = "int64"
    THEN RInt((IF v.n < 0 THEN -1 ELSE 1) * (Abs(v.n) \div v.d))
    ELSE v

RECURSIVE MaxIndex(_)
\* max(columns) of a non-empty list
MaxIndex(columns) ==
    IF Len(columns) = 1 THEN columns[1]
    ELSE With([m \in {MaxIndex(Tail(columns))} |->
            IF m > columns[1] THEN m ELSE columns[1]])

\* data[:, columns]: a copy with the columns listed, in the order listed
SelectColumns(rows, columns) ==
    [r \in 1..Len(rows) |-> [k \in 1..Len(columns) |-> rows[r][columns[k] + 1]]]

\* selected_data[:, 1:] = values, stored in the dtype of the array
AssignY(dtype, selected, values) ==
    [r \in 1..Len(selected) |->
        [k \in 1..Len(selected[r]) |->
            IF k = 1 THEN selected[r][k] ELSE Stored(dtype, values[r][k])]]

None == [none |-> TRUE, array |-> <<>>]
Returned(array) == [none |-> FALSE, array |-> array]

\* lines 117-123 on the selected columns
NormalizeOrScale(dtype, selected, ncolumns, normalize, scale_factor) ==
    IF normalize
    THEN IF ncolumns < 2 THEN None           \* selected_data[:, 1]: IndexError
         ELSE IF selected = <<>> THEN None    \* np.max of no value: ValueError
         ELSE With([max_val \in {ArrMax([r \in 1..Len(selected) |-> selected[r][2]])} |->
                IF RLt(RZero, max_val)
                THEN Returned(AssignY(dtype, selected,
                         [r \in 1..Len(selected) |->
                             [k \in 1..ncolumns |-> RDiv(selected[r][k], max_val)]]))
                ELSE Returned(selected)])
    ELSE IF scale_factor # ROne
    THEN Returned(AssignY(dtype, selected,
             [r \in 1..Len(selected) |->
                 [k \in 1..ncolumns |-> RMul(selected[r][k], scale_factor)]]))
    ELSE Returned(selected)

\* XRDDataReader.load_xrd_dataset(filename, columns, normalize,
\* scale_factor); every exception raised after the exists() test is caught
\* by "except Exception" and turned into None
load_xrd_dataset(f, columns, normalize, scale_factor) ==
    IF ~f.exists THEN None
    ELSE IF ~f.readable THEN None
    ELSE IF columns = <<>> THEN None          \* max([]): ValueError
    ELSE IF f.table.ncols <= MaxIndex(columns) THEN None
    ELSE NormalizeOrScale(DType(f.table), SelectColumns(f.table.rows, columns),
                          Len(columns), normalize, scale_factor)

\* most columns of a generated data file
MaxColumns == 3

\* the columns a file is made of: two rows each
ColumnPool ==
    {<<RInt(10), RInt(20)>>, <<RInt(1), RInt(4)>>, <<RInt(3), RInt(2)>>,
     <<Rat(1, 2), Rat(3, 2)>>, <<RInt(-1), RInt(-2)>>, <<RInt(0), RInt(0)>>}
Table(cols) ==
    [ncols |-> Len(cols),
     rows |-> [r \in 1..2 |-> [c \in 1..Len(cols) |-> cols[c][r]]]]
DataFile(table) == [exists |-> TRUE, readable |-> TRUE, table |-> table]
NoTable == [ncols |-> 0, rows |-> <<>>]
DataFiles ==
    {[exists |-> FALSE, readable |-> FALSE, table |-> NoTable],
     [exists |-> TRUE, readable |-> FALSE, table |-> NoTable],
     DataFile([ncols |-> 2, rows |-> <<>>])}
        \union {DataFile(Table(cols)) :
                   cols \in UNION {[1..n -> ColumnPool] : n \in 1..MaxColumns}}
ColumnLists == {<<>>, <<0>>, <<0, 1>>, <<1, 0>>, <<0, 2>>, <<0, 1, 2>>, <<0, 2, 1>>}
ScaleFactors == {ROne, RInt(2), Rat(1, 2)}

\* no call of load_xrd_dataset, of ttodataplot
NoDataset ==
    [called |-> FALSE, file |-> DataFile(NoTable), columns |-> <<>>,
     normalize |-> FALSE, scale_factor |-> ROne, raised |-> FALSE,
     returned |-> None]

(* ----------------------------- ttodataplot ---------------------------- *)
\* io/ppmsTTOReader.py.  Data is the table pd.read_csv makes of the file
\* after its 27 header rows, as a sequence of rows of ncols numbers;
\* temperatures and the other values are integers that stand for the
\* reals of the file.  Column 5 of the code is element 6 of a row.
TemperatureOf(row) == row[6]

RECURSIVE ArgMin(_)
\* np.argmin: the first index (from 0) of the least value of a non-empty array
ArgMin(arr) ==
    IF Len(arr) = 1 THEN 0
    ELSE With([rest \in {ArgMin(Tail(arr))} |->
            IF arr[1] <= arr[rest + 2] THEN 0 ELSE rest + 1])

\* dx = np.argmin(np.abs(Data[:, 5] - temp))
NearestRow(Data, temp) ==
    ArgMin([r \in 1..Len(Data) |-> Abs(TemperatureOf(Data[r]) - temp)])

\* lines 80-84: the row index found for each temperature, in turn
RowsToDrop(Data, datadrop) ==
    [k \in 1..Len(datadrop) |-> NearestRow(Data, datadrop[k])]

RECURSIVE DeleteFrom(_, _, _)
\* np.delete(Data, rows_to_drop, axis=0), from row index i on: the rows
\* whose index is not listed, in their order
DeleteFrom(Data, rows_to_drop, i) ==
    IF i >= Len(Data) THEN <<>>
    ELSE (IF \E k \in 1..Len(rows_to_drop) : rows_to_drop[k] = i
          THEN <<>> ELSE <<Data[i + 1]>>)
             \o DeleteFrom(Data, rows_to_drop, i + 1)
Delete(Data, rows_to_drop) == DeleteFrom(Data, rows_to_drop, 0)

RECURSIVE DropRowsOneByOne(_, _)
\* mutant: each row is removed as soon as it is found, so that the next
\* temperature is looked up in the data already shortened
DropRowsOneByOne(Data, datadrop) ==
    IF datadrop = <<>> THEN Data
    ELSE DropRowsOneByOne(Delete(Data, <<NearestRow(Data, Head(datadrop))>>),
                          Tail(datadrop))

\* lines 79-88
DropRows(Data, datadrop) == Delete(Data, RowsToDrop(Data, datadrop))

\* Data[:, 5:8]
DataOut(Data) == [r \in 1..Len(Data) |-> SubSeq(Data[r], 6, 8)]

TtoRaise(type) == [raised |-> TRUE, error |-> type, array |-> <<>>]

\* ttodataplot(filename, datadrop, base_directory); drop is the datadrop
\* argument: None, or a list, numeric or not
ttodataplot(f, drop) ==
    IF drop.given /\ ~drop.numeric THEN TtoRaise("ValueError")
    ELSE IF ~f.exists THEN TtoRaise("FileNotFoundError")
    ELSE IF ~f.readable THEN TtoRaise("IOError")
    ELSE IF f.ncols < 8 THEN TtoRaise("ValueError")
    ELSE [raised |-> FALSE, error |-> "",
          array |-> DataOut(DropRows(f.rows, IF drop.given THEN drop.temps ELSE <<>>))]

\* most data rows of a generated file, most temperatures to drop
MaxRows == 3
MaxDrops == 2

\* the r-th row of a file of ncols columns at temperature T: its
\* conductivity is r and its error 1
TtoRow(T, r, ncols) ==
    [c \in 1..ncols |-> CASE c = 6 -> T [] c = 7 -> r [] c = 8 -> 1 [] OTHER -> 0]
RowTemperatures == {0, 10, 20}
DropTemperatures == {5, 10, 14, 15, 40}
TtoFile(ncols, temps) ==
    [exists |-> TRUE, readable |-> TRUE, ncols |-> ncols,
     rows |-> [r \in 1..Len(temps) |-> TtoRow(temps[r], r, ncols)]]
TtoFiles ==
    {[exists |-> FALSE, readable |-> FALSE, ncols |-> 0, rows |-> <<>>],
     [exists |-> TRUE, readable |-> FALSE, ncols |-> 0, rows |-> <<>>]}
        \union {TtoFile(ncols, temps) :
                   ncols \in {7, 8, 9},
                   temps \in UNION {[1..n -> RowTemperatures] : n \in 1..MaxRows}}
DropLists ==
    {[given |-> FALSE, numeric |-> TRUE, temps |-> <<>>],
     [given |-> TRUE, numeric |-> FALSE, temps |-> <<>>]}
        \union {[given |-> TRUE, numeric |-> TRUE, temps |-> temps] :
                   temps \in UNION {[1..n -> DropTemperatures] : n \in 0..MaxDrops}}

NoTto ==
    [called |-> FALSE, file |-> TtoFile(8, <<>>),
     datadrop |-> [given |-> FALSE, numeric |-> TRUE, temps |-> <<>>],
     raised |-> FALSE, error |-> "", array |-> <<>>]

VARIABLES
    file,      \* what the file system holds at the path
    strict,    \* the numpy build: TRUE when unmatched text is a ValueError
    reader,    \* the XRDMLReader object, once constructed
    result,    \* the outcome of the last call
    previous,  \* an earlier outcome the caller has kept
    dataset,   \* a call of XRDDataReader.load_xrd_dataset and what it returns
    tto        \* a call of ttodataplot and what it returns

vars == <<file, strict, reader, result, previous, dataset, tto>>

NoResult ==
    [op |-> "none", index |-> 0, normalize |-> FALSE, raised |-> FALSE,
     error |-> NoError, two_theta |-> <<>>, intensities |-> <<>>,
     metadata |-> {}, array |-> <<>>, list |-> <<>>, num |-> 0,
     lookups |-> <<>>, parsed |-> FALSE, steps |-> <<>>, defaulted |-> FALSE]

Init ==
    /\ file \in Files
    /\ strict \in BOOLEAN
    /\ reader = NoReader
    /\ result = NoResult
    /\ previous = NoResult
    /\ dataset = NoDataset
    /\ tto = NoTto

\* the caller holds no outcome of an earlier call
Idle == result.op = "none"

\* reader = XRDMLReader(filepath)
Construct ==
    /\ Idle
    /\ ~reader.constructed
    /\ \E pf \in {parse_file(file)} :
           /\ reader' = pf.reader
           /\ result' = [NoResult EXCEPT !.op = "XRDMLReader", !.raised = pf.raised,
                                         !.error = pf.error, !.parsed = ~pf.raised,
                                         !.steps = pf.steps]
    /\ UNCHANGED <<file, strict, previous, dataset, tto>>

\* reader.get_num_scans()
GetNumScans ==
    /\ Idle
    /\ reader.constructed
    /\ result' = [NoResult EXCEPT !.op = "get_num_scans", !.parsed = TRUE,
                                  !.num = get_num_scans(reader)]
    /\ UNCHANGED <<file, strict, reader, previous, dataset, tto>>

\* reader.get_metadata(i)
GetMetadata ==
    /\ Idle
    /\ reader.constructed
    /\ \E i \in ScanIndices :
         \E r \in {get_metadata(reader, i)} :
             result' = [NoResult EXCEPT !.op = "get_metadata", !.index = i,
                                        !.parsed = TRUE,
                                        !.raised = r.raised, !.error = r.error,
                                        !.metadata = r.metadata,
                                        !.lookups = r.lookups]
    /\ UNCHANGED <<file, strict, reader, previous, dataset, tto>>

\* reader.read_scan(i)
ReadScan ==
    /\ Idle
    /\ reader.constructed
    /\ \E i \in ScanIndices :
         \E r \in {read_scan(reader, i, strict)} :
             result' = [NoResult EXCEPT !.op = "read_scan", !.index = i,
                                        !.parsed = TRUE,
                                        !.raised = r.raised, !.error = r.error,
                                        !.two_theta = r.two_theta,
                                        !.intensities = r.intensities,
                                        !.metadata = r.metadata,
                                        !.lookups = r.lookups]
    /\ UNCHANGED <<file, strict, reader, previous, dataset, tto>>

\* mutant: read_all_scans takes the scans off the list as it reads them
ReadAllScansConsuming ==
    /\ Idle
    /\ reader.constructed
    /\ \E r \in {read_all_scans(reader, strict)} :
           result' = [NoResult EXCEPT !.op = "read_all_scans", !.parsed = TRUE,
                                      !.raised = r.raised, !.error = r.error,
                                      !.list = r.list]
    /\ reader' = [reader EXCEPT !.scans = <<>>]
    /\ UNCHANGED <<file, strict, previous, dataset, tto>>

\* reader.read_all_scans()
ReadAllScans ==
    /\ Idle
    /\ reader.constructed
    /\ \E r \in {read_all_scans(reader, strict)} :
           result' = [NoResult EXCEPT !.op = "read_all_scans", !.parsed = TRUE,
                                      !.raised = r.raised, !.error = r.error,
                                      !.list = r.list]
    /\ UNCHANGED <<file, strict, reader, previous, dataset, tto>>

\* reader.to_array(i, normalize)
ToArray ==
    /\ Idle
    /\ reader.constructed
    /\ \E i \in ScanIndices, normalize \in BOOLEAN :
         \E r \in {to_array(reader, i, normalize, strict)} :
             result' = [NoResult EXCEPT !.op = "to_array", !.index = i,
                                        !.normalize = normalize, !.parsed = TRUE,
                                        !.raised = r.raised, !.error = r.error,
                                        !.array = r.array, !.lookups = r.lookups]
    /\ UNCHANGED <<file, strict, reader, previous, dataset, tto>>

\* scan_index: int = 0 in the signature of read_xrdml
DefaultScanIndex == 0

\* read_xrdml(filepath, i, normalize), or read_xrdml(filepath,
\* normalize=...) with the index left to its default: a function of the
\* module, which builds a reader of its own
ReadXrdml ==
    /\ Idle
    /\ \E i \in ScanIndices, normalize \in BOOLEAN, given \in BOOLEAN :
         /\ ~given => i = DefaultScanIndex
         /\ \E r \in {read_xrdml(file, i, normalize, strict)} :
             result' = [NoResult EXCEPT !.op = "read_xrdml", !.index = i,
                                        !.normalize = normalize,
                                        !.defaulted = ~given,
                                        !.parsed = r.parsed, !.num = r.available,
                                        !.steps = r.steps,
                                        !.raised = r.rs.raised, !.error = r.rs.error,
                                        !.two_theta = r.rs.two_theta,
                                        !.intensities = r.rs.intensities,
                                        !.metadata = r.rs.metadata,
                                        !.lookups = r.rs.lookups]
    /\ UNCHANGED <<file, strict, reader, previous, dataset, tto>>

\* the caller is done with the outcome of the last call and drops it
Discard ==
    /\ ~Idle
    /\ result' = NoResult
    /\ UNCHANGED <<file, strict, reader, previous, dataset, tto>>

Next ==
    \/ Construct
    \/ GetNumScans
    \/ GetMetadata
    \/ ReadScan
    \/ ReadAllScans
    \/ ToArray
    \/ ReadXrdml
    \/ Discard

Spec == Init /\ [][Next]_vars

\* read_scan alone and under read_xrdml, over every file
NextSeries ==
    \/ Construct
    \/ ReadScan
    \/ ReadXrdml
    \/ Discard

SpecSeries == Init /\ [][NextSeries]_vars

\* documents with three scans, some of which fail, and one without scans
QueryDocs ==
    FailingScanDocs \union {LayoutDoc("", "", TRUE, "", <<0>>, FALSE)}

\* the methods of a constructed reader, called in any order, any number of
\* times; the caller keeps one outcome to compare a later one with
QueryOps == {"get_num_scans", "get_metadata", "read_scan", "read_all_scans", "to_array"}

Remember ==
    /\ result.op \in QueryOps
    /\ previous = NoResult
    /\ previous' = result
    /\ result' = NoResult
    /\ UNCHANGED <<file, strict, reader, dataset, tto>>

Forget ==
    /\ previous # NoResult
    /\ previous' = NoResult
    /\ UNCHANGED <<file, strict, reader, result, dataset, tto>>

InitQueries ==
    /\ file \in {File(d) : d \in QueryDocs}
    /\ strict \in BOOLEAN
    /\ reader = NoReader
    /\ result = NoResult
    /\ previous = NoResult
    /\ dataset = NoDataset
    /\ tto = NoTto

NextQueries ==
    \/ Construct
    \/ GetNumScans
    \/ GetMetadata
    \/ ReadScan
    \/ ReadAllScans
    \/ ToArray
    \/ Remember
    \/ Forget
    \/ Discard

SpecQueries == InitQueries /\ [][NextQueries]_vars

\* reader.load_xrd_dataset(filename, columns, normalize, scale_factor)
LoadXrdDataset ==
    /\ ~dataset.called
    /\ dataset' = [dataset EXCEPT
           !.called = TRUE,
           !.raised = FALSE,
           !.returned = load_xrd_dataset(dataset.file, dataset.columns,
                                         dataset.normalize, dataset.scale_factor)]
    /\ UNCHANGED <<file, strict, reader, result, previous, tto>>

\* one call of load_xrd_dataset on every file and argument list
InitDataset ==
    /\ file = MissingFile
    /\ strict = FALSE
    /\ reader = NoReader
    /\ result = NoResult
    /\ previous = NoResult
    /\ dataset \in {[NoDataset EXCEPT !.file = f, !.columns = columns,
                                      !.normalize = normalize,
                                      !.scale_factor = scale_factor] :
                         f \in DataFiles, columns \in ColumnLists,
                         normalize \in BOOLEAN, scale_factor \in ScaleFactors}
    /\ tto = NoTto

NextDataset == LoadXrdDataset

SpecDataset == InitDataset /\ [][NextDataset]_vars

\* ttodataplot(filename, datadrop)
TtoDataPlot ==
    /\ ~tto.called
    /\ \E r \in {ttodataplot(tto.file, tto.datadrop)} :
           tto' = [tto EXCEPT !.called = TRUE, !.raised = r.raised,
                              !.error = r.error, !.array = r.array]
    /\ UNCHANGED <<file, strict, reader, result, previous, dataset>>

\* one call of ttodataplot on every file and list of temperatures
InitTto ==
    /\ file = MissingFile
    /\ strict = FALSE
    /\ reader = NoReader
    /\ result = NoResult
    /\ previous = NoResult
    /\ dataset = NoDataset
    /\ tto \in {[NoTto EXCEPT !.file = f, !.datadrop = drop] :
                    f \in TtoFiles, drop \in DropLists}

NextTto == TtoDataPlot

SpecTto == InitTto /\ [][NextTto]_vars

\* get_metadata over documents with several measurement blocks and over
\* those with every kind of radius and temperature block
InitMetadata ==
    /\ file \in {File(d) : d \in BlockDocs \union MetadataVariantDocs}
    /\ strict \in BOOLEAN
    /\ reader = NoReader
    /\ result = NoResult
    /\ previous = NoResult
    /\ dataset = NoDataset
    /\ tto = NoTto

NextMetadata ==
    \/ Construct
    \/ GetMetadata
    \/ Discard

SpecMetadata == InitMetadata /\ [][NextMetadata]_vars

\* get_metadata over the documents with optional sources left out
InitOptional ==
    /\ file \in {File(d) : d \in OptionalDocs}
    /\ strict \in BOOLEAN
    /\ reader = NoReader
    /\ result = NoResult
    /\ previous = NoResult
    /\ dataset = NoDataset
    /\ tto = NoTto

NextOptional ==
    \/ Construct
    \/ GetMetadata
    \/ Discard

SpecOptional == InitOptional /\ [][NextOptional]_vars

(* ------------------------------ properties --------------------------- *)
SeriesOps == {"read_scan", "read_xrdml", "to_array"}

\* the reader the last call worked on: read_xrdml builds its own
UsedReader == IF result.op = "read_xrdml" THEN parse_file(file).reader ELSE reader

\* the axis and the intensities the last call returned (to_array returns them
\* as the two columns of one array)
ResultAxis ==
    IF result.op = "to_array"
    THEN [k \in 1..Len(result.array) |-> result.array[k][1]]
    ELSE result.two_theta
ResultIntensities ==
    IF result.op = "to_array"
    THEN [k \in 1..Len(result.array) |-> result.array[k][2]]
    ELSE result.intensities

\* the first child of elem with the local name given
Sub(elem, name) ==
    elem.children[CHOOSE i \in 1..Len(elem.children) :
                     /\ elem.children[i].tag.name = name
                     /\ \A j \in 1..(i - 1) : elem.children[j].tag.name # name]

\* the scan element at position result.index of the scan index
IndexedScan == Deref(UsedReader.root, UsedReader.scans[result.index + 1])

\* the startPosition or endPosition that scan declares
DeclaredPosition(scan, which) ==
    TokVal(Sub(Sub(Sub(scan, "dataPoints"), "positions"), which).text.toks[1])

\* a successful series extraction at a non-negative index
SeriesReturned ==
    /\ result.op \in SeriesOps
    /\ ~result.raised
    /\ result.index >= 0

\* C1: read_scan (alone, under read_xrdml, and for every entry of
\* read_all_scans) either raises and returns nothing, or returns an axis and
\* an intensity array of the same length.
C1_SeriesAllOrNothing ==
    /\ result.op \in {"read_scan", "read_xrdml"} =>
         IF result.raised
         THEN result.two_theta = <<>> /\ result.intensities = <<>>
              /\ result.metadata = {}
         ELSE Len(result.two_theta) = Len(result.intensities)
    /\ result.op = "read_all_scans" =>
         \A k \in 1..Len(result.list) :
             Len(result.list[k].two_theta) = Len(result.list[k].intensities)

C1_Witness ==
    /\ result.op = "read_scan"
    /\ ~result.raised
    /\ Len(result.intensities) >= 2
    /\ Len(result.two_theta) = Len(result.intensities)

\* C2: for a scan declaring startPosition s and endPosition e with n >= 2
\* intensity values, element k of the returned axis is s + k*(e - s)/(n - 1)
\* for 0 <= k < n; its first value is s and its last is e.
C2_AxisLinearlySpaced ==
    (SeriesReturned /\ Len(ResultIntensities) >= 2) =>
        LET n == Len(ResultIntensities)
            s == DeclaredPosition(IndexedScan, "startPosition")
            e == DeclaredPosition(IndexedScan, "endPosition")
        IN  /\ Len(ResultAxis) = n
            /\ \A k \in 0..(n - 1) :
                   ResultAxis[k + 1] =
                       RAdd(s, RDiv(RMul(RInt(k), RSub(e, s)), RInt(n - 1)))
            /\ ResultAxis[1] = s
            /\ ResultAxis[n] = e

C2_Witness ==
    /\ SeriesReturned
    /\ result.op = "read_scan"
    /\ Len(result.intensities) = 4
    /\ DeclaredPosition(IndexedScan, "startPosition") = Rat(25, 2)
    /\ DeclaredPosition(IndexedScan, "endPosition") = RInt(20)
    /\ result.two_theta = <<Rat(25, 2), RInt(15), Rat(35, 2), RInt(20)>>

\* C3: startPosition 10.0, endPosition 20.0 and samples 1 2 3 4 5 give the
\* axis 10.0 12.5 15.0 17.5 20.0 with intensities 1 2 3 4 5, and with
\* normalize=True intensities 0.2 0.4 0.6 0.8 1.0 over the same axis.
C3_Scenario ==
    (file = File(ScenarioDoc) /\ result.op \in SeriesOps /\ result.index = 0) =>
        /\ ~result.raised
        /\ ResultAxis = <<RInt(10), Rat(25, 2), RInt(15), Rat(35, 2), RInt(20)>>
        /\ ResultIntensities =
               IF result.normalize
               THEN <<Rat(2, 10), Rat(4, 10), Rat(6, 10), Rat(8, 10), Rat(10, 10)>>
               ELSE <<RInt(1), RInt(2), RInt(3), RInt(4), RInt(5)>>

C3_Witness ==
    /\ file = File(ScenarioDoc)
    /\ result.op = "read_xrdml"
    /\ result.index = 0
    /\ result.normalize
    /\ result.intensities = <<Rat(1, 5), Rat(2, 5), Rat(3, 5), Rat(4, 5), ROne>>

NonDecreasing(axis) ==
    \A k \in 1..(Len(axis) - 1) : RLe(axis[k], axis[k + 1])
NonIncreasing(axis) ==
    \A k \in 1..(Len(axis) - 1) : RLe(axis[k + 1], axis[k])

\* C4 as claimed: the axis of every scan read_scan returns is non-decreasing,
\* whatever startPosition and endPosition the file declares.
C4_AxisNonDecreasing ==
    (result.op \in SeriesOps /\ ~result.raised) => NonDecreasing(ResultAxis)

\* C4 as amended: the axis runs from startPosition to endPosition, so it is
\* non-decreasing when endPosition >= startPosition and non-increasing when
\* endPosition <= startPosition.
C4_AxisMonotoneTowardsEnd ==
    SeriesReturned =>
        LET s == DeclaredPosition(IndexedScan, "startPosition")
            e == DeclaredPosition(IndexedScan, "endPosition")
        IN  /\ RLe(s, e) => NonDecreasing(ResultAxis)
            /\ RLe(e, s) => NonIncreasing(ResultAxis)

C4_Witness ==
    /\ SeriesReturned
    /\ result.op = "read_scan"
    /\ Len(result.two_theta) >= 3
    /\ RLt(DeclaredPosition(IndexedScan, "startPosition"),
           DeclaredPosition(IndexedScan, "endPosition"))
    /\ \A k \in 1..(Len(result.two_theta) - 1) :
           RLt(result.two_theta[k], result.two_theta[k + 1])

NormalizingOps == {"read_xrdml", "to_array"}

\* what read_scan returns for the index of the last call: the intensities
\* before any normalization
RawScan == read_scan(UsedReader, result.index, strict)

\* a call with normalize=True on a scan that read_scan can extract
NormalizationRequested ==
    /\ result.op \in NormalizingOps
    /\ result.normalize
    /\ result.parsed
    /\ ~RawScan.raised

AllNonPositive(arr) == \A k \in 1..Len(arr) : RLe(arr[k], RZero)

\* the largest value of a non-empty array
MaxOf(arr) ==
    CHOOSE m \in {arr[k] : k \in 1..Len(arr)} :
        \A k \in 1..Len(arr) : RLe(arr[k], m)

\* C5 as claimed: with normalize=True and every intensity of the scan <= 0,
\* the returned intensities are the raw ones and no error is raised.
C5_GuardOnEveryScan ==
    (NormalizationRequested /\ AllNonPositive(RawScan.intensities)) =>
        /\ ~result.raised
        /\ ResultIntensities = RawScan.intensities

\* C5 as amended: for a scan with at least one intensity value, with
\* normalize=True no error is raised, the returned intensities are the raw
\* ones when the maximum is <= 0, and they are the raw ones divided by the
\* maximum exactly when the maximum is > 0.
C5_GuardOnNonEmptyScan ==
    (NormalizationRequested /\ Len(RawScan.intensities) >= 1) =>
        LET raw == RawScan.intensities
        IN  /\ ~result.raised
            /\ Len(ResultIntensities) = Len(raw)
            /\ AllNonPositive(raw) => ResultIntensities = raw
            /\ ~AllNonPositive(raw) =>
                   \A k \in 1..Len(raw) :
                       ResultIntensities[k] = RDiv(raw[k], MaxOf(raw))
            /\ ResultAxis = RawScan.two_theta

C5_Witness ==
    /\ NormalizationRequested
    /\ result.op = "to_array"
    /\ Len(RawScan.intensities) >= 2
    /\ AllNonPositive(RawScan.intensities)
    /\ \E k \in 1..Len(RawScan.intensities) : RLt(RawScan.intensities[k], RZero)
    /\ ~result.raised
    /\ ResultIntensities = RawScan.intensities

\* C6: normalization is idempotent: the normalization step applied to the
\* intensities a normalize=True call returned gives them back unchanged,
\* whether the maximum of the raw series was positive or not.
C6_NormalizationIdempotent ==
    (result.op \in NormalizingOps /\ result.normalize /\ ~result.raised) =>
        /\ Normalize(ResultIntensities).ok
        /\ Normalize(ResultIntensities).arr = ResultIntensities

C6_Witness ==
    /\ NormalizationRequested
    /\ ~result.raised
    /\ ResultIntensities # RawScan.intensities
    /\ MaxOf(ResultIntensities) = ROne
    /\ Normalize(ResultIntensities).arr = ResultIntensities

\* C7: with normalize=True every returned intensity v satisfies 0 <= v <= 1.
C7_NormalizedInUnitInterval ==
    (result.op \in NormalizingOps /\ result.normalize /\ ~result.raised) =>
        \A k \in 1..Len(ResultIntensities) :
            RLe(RZero, ResultIntensities[k]) /\ RLe(ResultIntensities[k], ROne)

\* the handles <<i, j>> of the elements named scan that are children of
\* elements named xrdMeasurement that are children of the root, the names
\* qualified with the namespace prefix ns
ScanHandles(root, ns) ==
    {<<i, j>> \in (1..Len(root.children)) \X (1..(MaxScansPer + 4)) :
        /\ root.children[i].tag = QName(ns, "xrdMeasurement")
        /\ j <= Len(root.children[i].children)
        /\ root.children[i].children[j].tag = QName(ns, "scan")}

\* document order of handles
Before(a, b) == a[1] < b[1] \/ (a[1] = b[1] /\ a[2] < b[2])

\* C8: after construction the scan index holds exactly the scan children of
\* the xrdMeasurement children of the root, in document order, and
\* get_num_scans() is their number; scan or xrdMeasurement elements nested
\* elsewhere are not indexed.  (Element names are qualified with the
\* namespace prefix the reader resolved.)
C8_ScanIndexInDocumentOrder ==
    reader.constructed =>
        LET handles == ScanHandles(reader.root, reader.namespace)
        IN  /\ Len(reader.scans) = Cardinality(handles)
            /\ {reader.scans[k] : k \in 1..Len(reader.scans)} = handles
            /\ \A k \in 1..(Len(reader.scans) - 1) :
                   Before(reader.scans[k], reader.scans[k + 1])
            /\ result.op = "get_num_scans" => result.num = Cardinality(handles)

\* the root holds a scan of its own, and a wrapper that nests a block
HasStrays(root) ==
    /\ \E i \in 1..Len(root.children) : root.children[i].tag.name = "scan"
    /\ \E i \in 1..Len(root.children) : root.children[i].tag.name = "wrapper"

C8_Witness ==
    /\ reader.constructed
    /\ HasStrays(reader.root)
    /\ result.op = "get_num_scans"
    /\ result.num = 3
    /\ Cardinality({reader.scans[k][1] : k \in 1..Len(reader.scans)}) = 2

\* C9: for a reader with N scans, get_metadata, read_scan, to_array and
\* read_xrdml with scan index i >= N fail with the IndexError that states
\* the number of available scans, before any element is looked up.
C9_IndexOverflowRejected ==
    (/\ result.op \in {"get_metadata", "read_scan", "to_array", "read_xrdml"}
     /\ result.parsed
     /\ result.index >= Len(UsedReader.scans)) =>
        /\ result.raised
        /\ result.error = ScanIndexError(result.index, Len(UsedReader.scans))
        /\ result.lookups = <<>>

C9_Witness ==
    /\ result.op = "read_scan"
    /\ reader.constructed
    /\ Len(reader.scans) = 0
    /\ result.index = 0
    /\ result.raised
    /\ result.error.type = "IndexError"
    /\ result.error.available = 0

\* C10: get_metadata(i) and read_scan(i) with i < 0 fail with the same
\* index-range error as with i >= N and never return the data of a scan.
C10_NegativeIndexRejected ==
    (result.op \in {"get_metadata", "read_scan"} /\ result.index < 0) =>
        /\ result.raised
        /\ result.error = ScanIndexError(result.index, Len(reader.scans))

\* the index of the last call selects a scan counted from the front
ValidIndex == 0 <= result.index /\ result.index < Len(UsedReader.scans)

\* the child of elem that a lookup of name under the reader's namespace
\* prefix finds (NoElem when it finds none)
Kid(elem, name) ==
    LET idx == find(elem, UsedReader.namespace, name)
    IN  IF idx = 0 THEN NoElem ELSE elem.children[idx]
Has(elem, name) == find(elem, UsedReader.namespace, name) # 0

IsNumber(text) == PyFloat(text).ok
NumberOrNoText(text) == ~Truthy(text) \/ IsNumber(text)

\* the scan has dataPoints, positions and a numeric startPosition and
\* endPosition: series extraction gets as far as the intensity lookup
PositionsComplete(scan) ==
    /\ Has(scan, "dataPoints")
    /\ Has(Kid(scan, "dataPoints"), "positions")
    /\ Has(Kid(Kid(scan, "dataPoints"), "positions"), "startPosition")
    /\ Has(Kid(Kid(scan, "dataPoints"), "positions"), "endPosition")
    /\ IsNumber(Kid(Kid(Kid(scan, "dataPoints"), "positions"), "startPosition").text)
    /\ IsNumber(Kid(Kid(Kid(scan, "dataPoints"), "positions"), "endPosition").text)

\* neither an intensities nor a counts element of the dataPoints block has text
NoIntensityText(scan) ==
    /\ ~Truthy(Kid(Kid(scan, "dataPoints"), "intensities").text)
    /\ ~Truthy(Kid(Kid(scan, "dataPoints"), "counts").text)

\* the temperature block that get_metadata reads for the scan: the first
\* nonAmbientPoints child
Conditions(scan) == Kid(scan, "nonAmbientPoints")
IsTemperature(conditions) ==
    \E a \in conditions.attrib : a.k = "type" /\ a.v = "Temperature"
TemperatureValues(scan) == Kid(Conditions(scan), "nonAmbientValues").text

\* every number that get_metadata converts outside its try block is a
\* number: the four wavelength texts, and the last temperature value
MetadataNumeric(scan) ==
    /\ \A name \in {"kAlpha1", "kAlpha2", "kBeta", "ratioKAlpha2KAlpha1"} :
           NumberOrNoText(
               Kid(Kid(Kid(UsedReader.root, "xrdMeasurement"), "usedWavelength"),
                   name).text)
    /\ (IsTemperature(Conditions(scan)) /\ TemperatureValues(scan).toks # <<>>) =>
           LET toks == TemperatureValues(scan).toks
           IN  toks[Len(toks)].k = "num"

IntensityError == Error("ValueError", "Intensity data could not be located")

\* C11: for a scan that is complete up to its positions but whose dataPoints
\* block has neither an intensities nor a counts element with text,
\* read_scan raises the ValueError that names the missing intensity data,
\* while get_metadata for the same index (the metadata numbers being
\* well-formed) does not raise, returns the mapping, and never looks at the
\* dataPoints block.
C11_MissingIntensityFailsSeriesOnly ==
    (ValidIndex /\ NoIntensityText(IndexedScan)) =>
        /\ (result.op = "read_scan" /\ PositionsComplete(IndexedScan)) =>
               /\ result.raised
               /\ result.error = IntensityError
               /\ MetadataNumeric(IndexedScan) =>
                      ~get_metadata(reader, result.index).raised
        /\ (result.op = "get_metadata" /\ MetadataNumeric(IndexedScan)) =>
               /\ ~result.raised
               /\ \A k \in 1..Len(result.lookups) :
                      result.lookups[k] \notin {"dataPoints", "positions",
                                                "intensities", "counts"}

C11_Witness ==
    /\ result.op = "get_metadata"
    /\ ValidIndex
    /\ PositionsComplete(IndexedScan)
    /\ Has(Kid(IndexedScan, "dataPoints"), "intensities")
    /\ Has(Kid(IndexedScan, "dataPoints"), "counts")
    /\ NoIntensityText(IndexedScan)
    /\ ~result.raised
    /\ \E item \in result.metadata : item.key = "sample_id"
    /\ read_scan(reader, result.index, strict).raised
    /\ read_scan(reader, result.index, strict).error = IntensityError

\* metadata[key] of the last call, and whether the key is there
HasKey(key) == \E item \in result.metadata : item.key = key
Value(key) == (CHOOSE item \in result.metadata : item.key = key).val

\* a successful get_metadata call on a scan counted from the front
MetadataReturned ==
    /\ result.op = "get_metadata"
    /\ ValidIndex
    /\ ~result.raised

\* the radius element the first measurement block supplies
Radius ==
    Kid(Kid(Kid(UsedReader.root, "xrdMeasurement"), "incidentBeamPath"), "radius")

\* C12: gonio_radius is present in the metadata of every valid scan index,
\* and equals 300.0 when the document has no incidentBeamPath block, no
\* radius element, or a radius element without text.
C12_RadiusAlwaysPresent ==
    MetadataReturned =>
        /\ HasKey("gonio_radius")
        /\ ~Truthy(Radius.text) =>
               Value("gonio_radius") = MNum(RInt(DefaultGonioRadius))

\* the radius element has text that float() rejects
RadiusMalformed == Truthy(Radius.text) /\ ~IsNumber(Radius.text)

\* C13: when float(radius.text) raises inside the try block, get_metadata
\* does not propagate the error (it raises only if a number outside the
\* block is malformed) and the mapping it returns, alone or as part of a
\* series, has gonio_radius equal to the default 300.0.
C13_RadiusErrorGivesDefault ==
    (result.op \in {"get_metadata", "read_scan", "read_xrdml"}
     /\ ValidIndex /\ RadiusMalformed) =>
        /\ (result.op = "get_metadata" /\ result.raised) =>
               ~MetadataNumeric(IndexedScan)
        /\ ~result.raised =>
               /\ HasKey("gonio_radius")
               /\ Value("gonio_radius") = MNum(RInt(DefaultGonioRadius))

C13_Witness ==
    /\ MetadataReturned
    /\ Radius.text = Word("r")
    /\ Value("gonio_radius") = MNum(RInt(DefaultGonioRadius))
    /\ HasKey("start_time")
    /\ HasKey("wavelength_ka1")

ConstructOps == {"XRDMLReader", "read_xrdml"}

\* C15: constructing a reader (directly or under read_xrdml) checks that the
\* path exists before anything else.  On a path that does not exist it
\* raises FileNotFoundError with no parse attempted and no reader produced;
\* on a file that exists but is not well-formed the parse is attempted and
\* raises ValueError.  No reader ever comes from a missing or corrupt file.
C15_ExistenceCheckedFirst ==
    /\ reader.constructed => (file.exists /\ file.wellformed)
    /\ result.op \in ConstructOps =>
        /\ result.steps # <<>>
        /\ result.steps[1] = "exists"
        /\ \A k \in 2..Len(result.steps) : result.steps[k] # "exists"
        /\ ~file.exists =>
               /\ result.raised
               /\ result.error = Error("FileNotFoundError", "File not found")
               /\ result.steps = <<"exists">>
               /\ ~result.parsed
               /\ reader = NoReader
        /\ (file.exists /\ ~file.wellformed) =>
               /\ result.raised
               /\ result.error.type = "ValueError"
               /\ result.steps = <<"exists", "parse">>
               /\ ~result.parsed
               /\ reader = NoReader

C15_Witness ==
    /\ result.op = "XRDMLReader"
    /\ file = MissingFile
    /\ result.raised
    /\ result.error.type = "FileNotFoundError"
    /\ result.steps = <<"exists">>
    /\ reader = NoReader

\* C16: constructing a reader on an existing file that is not well-formed
\* XML raises the ValueError "Invalid XML file: ..." that carries the
\* parser's diagnostic; no call ever raises the parser's own ParseError.
C16_ParseErrorWrapped ==
    /\ result.error.type # "ParseError"
    /\ (result.op \in ConstructOps /\ file.exists /\ ~file.wellformed) =>
           /\ result.raised
           /\ result.error = InvalidXmlError(file.diagnostic)
           /\ result.error.detail \in ParseDiagnostics

C16_Witness ==
    /\ result.op = "XRDMLReader"
    /\ file = CorruptFile("mismatched tag: line 3, column 2")
    /\ result.raised
    /\ result.error.type = "ValueError"
    /\ result.error.msg = "Invalid XML file"
    /\ result.error.detail = "mismatched tag: line 3, column 2"

\* a child of the root is a comment element, qualified with the namespace
\* of the root tag or unqualified
CommentFound(root) ==
    \E i \in 1..Len(root.children) :
        root.children[i].tag \in
            {QName(root.tag.ns, "comment"), QName("", "comment")}

\* C17: on a well-formed file construction succeeds exactly when a comment
\* element is found directly under the root, qualified with the namespace
\* of the root tag or unqualified; otherwise it raises the ValueError "Not
\* a valid .xrdml file" and no scan is indexed.  Every reader that exists
\* comes from a document with such a comment element.
C17_CommentRequired ==
    /\ reader.constructed => CommentFound(reader.root)
    /\ (result.op \in ConstructOps /\ file.exists /\ file.wellformed) =>
           IF CommentFound(file.root)
           THEN /\ result.parsed
                /\ result.steps = <<"exists", "parse", "validate", "index">>
                /\ result.op = "XRDMLReader" =>
                       ~result.raised /\ reader.constructed /\ reader.root = file.root
           ELSE /\ result.raised
                /\ result.error = Error("ValueError", "Not a valid .xrdml file")
                /\ result.steps = <<"exists", "parse", "validate">>
                /\ ~result.parsed
                /\ reader = NoReader

C17_Witness ==
    /\ result.op = "XRDMLReader"
    /\ file.exists /\ file.wellformed
    /\ ~CommentFound(file.root)
    /\ \E i \in 1..Len(file.root.children) :
           file.root.children[i].tag.name = "comment"
    /\ IndexScans(file.root, file.root.tag.ns) # <<>>
    /\ result.raised
    /\ reader.scans = <<>>

RECURSIVE Visible(_, _)
\* elem without the descendants that no lookup qualified with ns can reach:
\* the children of another namespace are dropped at every level
Visible(elem, ns) ==
    LET RECURSIVE Keep(_)
        Keep(children) ==
            IF children = <<>> THEN <<>>
            ELSE (IF Head(children).tag.ns = ns
                  THEN <<Visible(Head(children), ns)>> ELSE <<>>)
                     \o Keep(Tail(children))
    IN  [elem EXCEPT !.children = Keep(elem.children)]

\* a reader over the part of the document that lookups qualified with the
\* namespace of the reader used can reach
VisibleReader ==
    With([used \in {UsedReader} |->
    With([root \in {Visible(used.root, used.namespace)} |->
        [constructed |-> TRUE, root |-> root, namespace |-> used.namespace,
         scans |-> IndexScans(root, used.namespace)]])])

\* the outcome of the last call is the outcome of the same call on other
SameOutcomeOn(other) ==
    /\ result.op = "get_num_scans" => result.num = get_num_scans(other)
    /\ result.op = "get_metadata" =>
           [raised |-> result.raised, error |-> result.error,
            metadata |-> result.metadata, lookups |-> result.lookups]
               = get_metadata(other, result.index)
    /\ result.op = "read_scan" =>
           [raised |-> result.raised, error |-> result.error,
            two_theta |-> result.two_theta, intensities |-> result.intensities,
            metadata |-> result.metadata, lookups |-> result.lookups]
               = read_scan(other, result.index, strict)
    /\ result.op = "read_xrdml" =>
           [raised |-> result.raised, error |-> result.error,
            two_theta |-> result.two_theta, intensities |-> result.intensities,
            metadata |-> result.metadata, lookups |-> result.lookups]
               = ReadNormalized(other, result.index, result.normalize, strict)
    /\ result.op = "to_array" =>
           [raised |-> result.raised, error |-> result.error,
            array |-> result.array, lookups |-> result.lookups]
               = to_array(other, result.index, result.normalize, strict)
    /\ result.op = "read_all_scans" =>
           [raised |-> result.raised, error |-> result.error, list |-> result.list]
               = read_all_scans(other, strict)

\* the root has a comment child qualified with the namespace of its tag
QualifiedComment(root) ==
    \E i \in 1..Len(root.children) :
        root.children[i].tag = QName(root.tag.ns, "comment")

\* C18: the namespace prefix of a reader is the namespace of the root tag
\* when the comment element is found under it, and empty when the root has
\* no namespace or the comment element is found only unqualified.  The scan
\* index and every lookup of every query are qualified with that one
\* prefix: elements of any other namespace are never found, so each call
\* gives what it gives on the document without them.
C18_OnePrefixForEveryLookup ==
    /\ reader.constructed =>
           /\ reader.namespace =
                  IF QualifiedComment(reader.root) THEN reader.root.tag.ns ELSE ""
           /\ reader.scans = IndexScans(reader.root, reader.namespace)
    /\ (result.op \notin {"none", "XRDMLReader"} /\ result.parsed) =>
           \A visible \in {VisibleReader} :
               /\ Len(visible.scans) = Len(UsedReader.scans)
               /\ SameOutcomeOn(visible)

C18_Witness ==
    /\ result.op = "read_scan"
    /\ reader.root.tag.ns = NsUri
    /\ ~QualifiedComment(reader.root)
    /\ reader.namespace = ""
    /\ result.index = 0
    /\ ~result.raised
    /\ result.intensities = <<RInt(2), RInt(1), RInt(0)>>
    /\ \E i \in 1..Len(Kid(IndexedScan, "dataPoints").children) :
           Kid(IndexedScan, "dataPoints").children[i].tag = QName(NsUri, "intensities")

\* the text of the intensities and of the counts element of the scan
IntensitiesText(scan) == Kid(Kid(scan, "dataPoints"), "intensities").text
CountsText(scan) == Kid(Kid(scan, "dataPoints"), "counts").text

\* C19: for a scan that is complete up to its positions, a series call
\* without normalization returns the values of the intensities element when
\* that element has text, whether or not a counts element is there too and
\* wherever it stands; it returns the values of the counts element exactly
\* when intensities is absent or has no text and counts has text; and it
\* raises "Intensity data could not be located" exactly when neither has.
C19_IntensitiesBeforeCounts ==
    (result.op \in {"read_scan", "read_xrdml"} /\ ~result.normalize
     /\ ValidIndex /\ PositionsComplete(IndexedScan)) =>
        LET t1 == IntensitiesText(IndexedScan)
            t2 == CountsText(IndexedScan)
            chosen == IF Truthy(t1) THEN t1 ELSE t2
        IN  /\ (result.raised /\ result.error = IntensityError)
                   <=> (~Truthy(t1) /\ ~Truthy(t2))
            /\ ~result.raised =>
                   /\ FromString(chosen, strict).ok
                   /\ result.intensities = FromString(chosen, strict).arr
            /\ (Truthy(chosen) /\ FromString(chosen, strict).ok
                /\ MetadataNumeric(IndexedScan)) => ~result.raised

C19_Witness ==
    /\ result.op = "read_scan"
    /\ ValidIndex
    /\ IntensitiesText(IndexedScan) = Text(NumToks(<<1, 2>>))
    /\ CountsText(IndexedScan) = Text(NumToks(<<2, 1, 0>>))
    /\ find(Kid(IndexedScan, "dataPoints"), reader.namespace, "counts")
           < find(Kid(IndexedScan, "dataPoints"), reader.namespace, "intensities")
    /\ ~result.raised
    /\ result.intensities = <<RInt(1), RInt(2)>>

\* a required series element of the scan is missing: the dataPoints block,
\* its positions element, the startPosition or endPosition element, or the
\* text of one of these two
SeriesElementMissing(scan) ==
    LET positions == Kid(Kid(scan, "dataPoints"), "positions")
    IN  \/ ~Has(scan, "dataPoints")
        \/ ~Has(Kid(scan, "dataPoints"), "positions")
        \/ ~Has(positions, "startPosition")
        \/ ~Has(positions, "endPosition")
        \/ ~Truthy(Kid(positions, "startPosition").text)
        \/ ~Truthy(Kid(positions, "endPosition").text)

\* C20: read_scan on a valid index raises ValueError, and no other kind of
\* error, whenever a required series element is missing, a startPosition or
\* endPosition element without text included.
C20_MissingSeriesElementIsValueError ==
    (result.op = "read_scan" /\ ValidIndex /\ SeriesElementMissing(IndexedScan)) =>
        /\ result.raised
        /\ result.error.type = "ValueError"

\* the blocks that get_metadata reads for the scan given
FirstMeasurement == Kid(UsedReader.root, "xrdMeasurement")
Wavelength == Kid(FirstMeasurement, "usedWavelength")
IncidentBeam == Kid(FirstMeasurement, "incidentBeamPath")
Tube == Kid(IncidentBeam, "xRayTube")

MetadataKeys ==
    {"sample_id", "start_time", "end_time", "wavelength_ka1", "wavelength_ka2",
     "wavelength_kb", "ka2_ka1_ratio", "tube_type", "voltage", "current",
     "gonio_radius", "temperature"}

\* the document supplies the source of the key for the scan: the element is
\* there and has text (for tube_type: xRayTube has the name attribute; for
\* temperature: the block is of type Temperature and holds a value)
SourceGiven(key, scan) ==
    CASE key = "sample_id" -> Truthy(Kid(Kid(UsedReader.root, "sample"), "id").text)
      [] key = "start_time" -> Truthy(Kid(Kid(scan, "header"), "startTimeStamp").text)
      [] key = "end_time" -> Truthy(Kid(Kid(scan, "header"), "endTimeStamp").text)
      [] key = "wavelength_ka1" -> Truthy(Kid(Wavelength, "kAlpha1").text)
      [] key = "wavelength_ka2" -> Truthy(Kid(Wavelength, "kAlpha2").text)
      [] key = "wavelength_kb" -> Truthy(Kid(Wavelength, "kBeta").text)
      [] key = "ka2_ka1_ratio" -> Truthy(Kid(Wavelength, "ratioKAlpha2KAlpha1").text)
      [] key = "gonio_radius" -> Truthy(Kid(IncidentBeam, "radius").text)
      [] key = "tube_type" -> \E a \in Tube.attrib : a.k = "name"
      [] key = "voltage" -> Truthy(Kid(Tube, "tension").text)
      [] key = "current" -> Truthy(Kid(Tube, "current").text)
      [] key = "temperature" ->
             IsTemperature(Conditions(scan)) /\ TemperatureValues(scan).toks # <<>>

\* C21: for a valid scan index get_metadata does not raise, whatever
\* subset of the optional elements, of their texts or of their blocks is
\* missing (the numbers that are there being well-formed), and the mapping
\* holds a key exactly when the document supplies its source: a key whose
\* source is missing is absent, with no value put in its place.
C21_MissingOptionalIsAbsent ==
    (result.op = "get_metadata" /\ ValidIndex /\ MetadataNumeric(IndexedScan)) =>
        /\ ~result.raised
        /\ \A item \in result.metadata : item.key \in MetadataKeys
        /\ \A key \in MetadataKeys :
               /\ ~SourceGiven(key, IndexedScan) => ~HasKey(key)
               /\ (SourceGiven(key, IndexedScan) /\ ~RadiusMalformed) => HasKey(key)

C21_Witness ==
    /\ result.op = "get_metadata"
    /\ ValidIndex
    /\ \A key \in MetadataKeys : ~SourceGiven(key, IndexedScan)
    /\ Has(IndexedScan, "header")
    /\ Has(FirstMeasurement, "usedWavelength")
    /\ Has(IncidentBeam, "xRayTube")
    /\ Has(IndexedScan, "nonAmbientPoints")
    /\ ~result.raised
    /\ result.metadata = {}

\* the indices of the scans, and among them those whose read_scan raises
ScanRange == 0 .. (Len(reader.scans) - 1)
FailingScans == {i \in ScanRange : read_scan(reader, i, strict).raised}
Entry(rs) ==
    [two_theta |-> rs.two_theta, intensities |-> rs.intensities,
     metadata |-> rs.metadata]

\* C22: read_all_scans returns one entry per scan, get_num_scans() of them,
\* in index order, entry i being what read_scan(i) returns (the empty list
\* for a reader without scans); if read_scan raises for some scan, the call
\* raises the error of the first such scan and returns no list.
C22_ReadAllIsReadScanInOrder ==
    result.op = "read_all_scans" =>
        \A failing \in {FailingScans} :
            IF failing = {}
            THEN /\ ~result.raised
                 /\ Len(result.list) = get_num_scans(reader)
                 /\ \A i \in ScanRange :
                        result.list[i + 1] = Entry(read_scan(reader, i, strict))
            ELSE /\ result.raised
                 /\ result.list = <<>>
                 /\ \E i \in failing :
                        /\ \A j \in failing : i <= j
                        /\ result.error = read_scan(reader, i, strict).error

C22_Witness ==
    /\ result.op = "read_all_scans"
    /\ ~result.raised
    /\ Len(result.list) = 3
    /\ result.list[1].intensities # result.list[2].intensities
    /\ result.list[3] = Entry(read_scan(reader, 2, strict))

\* the axis, intensities, metadata or error of a series outcome
Outcome(rs) ==
    [raised |-> rs.raised, error |-> rs.error, two_theta |-> rs.two_theta,
     intensities |-> rs.intensities, metadata |-> rs.metadata]

\* C23: read_xrdml(path, i) returns what XRDMLReader(path).read_scan(i)
\* returns, or fails with the same error, the error of the constructor
\* included; with normalize=True it fails as to_array(i, normalize=True)
\* fails, and otherwise its axis and intensities are the two columns of
\* that array; an omitted index is index 0.
C23_ReadXrdmlIsConstructThenRead ==
    result.op = "read_xrdml" =>
        \A pf \in {parse_file(file)} :
            /\ result.defaulted => result.index = 0
            /\ result.parsed = ~pf.raised
            /\ pf.raised => (result.raised /\ result.error = pf.error)
            /\ (~pf.raised /\ ~result.normalize) =>
                   Outcome(result) = Outcome(read_scan(pf.reader, result.index, strict))
            /\ (~pf.raised /\ result.normalize) =>
                   \A ta \in {to_array(pf.reader, result.index, TRUE, strict)} :
                       /\ result.raised = ta.raised
                       /\ result.error = ta.error
                       /\ ~ta.raised =>
                              /\ ta.array = ColumnStack(result.two_theta, result.intensities)
                              /\ Len(result.intensities) = Len(result.two_theta)
                              /\ result.metadata =
                                     read_scan(pf.reader, result.index, strict).metadata

C23_Witness ==
    /\ result.op = "read_xrdml"
    /\ result.normalize
    /\ result.index = 1
    /\ ~result.raised
    /\ Len(result.intensities) = 2
    /\ result.intensities # read_scan(parse_file(file).reader, 1, strict).intensities
    /\ result.metadata # {}

\* the outcome now is of the call whose outcome the caller has kept
SameCall ==
    /\ result.op \in QueryOps
    /\ previous.op = result.op
    /\ previous.index = result.index
    /\ previous.normalize = result.normalize

\* C24: once the reader is constructed no call of get_num_scans,
\* get_metadata, read_scan, read_all_scans or to_array, failing or not,
\* changes its root, namespace prefix or scan list, which stay as the
\* constructor left them, and a call repeated after any such calls returns
\* what it returned before.
C24_QueriesLeaveReaderUnchanged ==
    /\ [][reader.constructed => reader' = reader]_vars
    /\ [](reader.constructed => reader = parse_file(file).reader)
    /\ [](SameCall => result = previous)

C24_Witness ==
    /\ SameCall
    /\ result.op = "to_array"
    /\ result.normalize
    /\ result.index = 1
    /\ ~result.raised
    /\ previous = result
    /\ Len(reader.scans) = 3

\* the names that get_metadata alone looks up
MetadataLookups ==
    {"sample", "id", "xrdMeasurement", "usedWavelength", "kAlpha1", "kAlpha2",
     "kBeta", "ratioKAlpha2KAlpha1", "incidentBeamPath", "radius", "xRayTube",
     "tension", "current", "header", "startTimeStamp", "endTimeStamp",
     "nonAmbientPoints", "nonAmbientValues"}
MetadataStarted == \E k \in 1..Len(result.lookups) : result.lookups[k] \in MetadataLookups

\* the error of the first series element found missing in scan, in the
\* order dataPoints, positions, startPosition or endPosition, intensity
\* data (NoError when none is missing)
FirstMissing(scan) ==
    LET dp == Kid(scan, "dataPoints")
        positions == Kid(dp, "positions")
    IN  IF ~Has(scan, "dataPoints")
        THEN Error("ValueError", "No dataPoints element found in scan")
        ELSE IF ~Has(dp, "positions")
        THEN Error("ValueError", "No positions element found in dataPoints")
        ELSE IF ~Has(positions, "startPosition") \/ ~Has(positions, "endPosition")
        THEN Error("ValueError", "Start or end position not found")
        ELSE IF NoIntensityText(scan) THEN IntensityError
        ELSE NoError

\* the same with the conversion of the two position texts, startPosition
\* first, between the position elements and the intensity data
FirstFailure(scan) ==
    LET positions == Kid(Kid(scan, "dataPoints"), "positions")
        start_pos == PyFloat(Kid(positions, "startPosition").text)
        end_pos == PyFloat(Kid(positions, "endPosition").text)
    IN  IF FirstMissing(scan) \notin {NoError, IntensityError} THEN FirstMissing(scan)
        ELSE IF ~start_pos.ok THEN Error(start_pos.type, "float(start_pos_elem.text)")
        ELSE IF ~end_pos.ok THEN Error(end_pos.type, "float(end_pos_elem.text)")
        ELSE FirstMissing(scan)

\* read_scan checks the index, then dataPoints, positions, startPosition and
\* endPosition, then the intensity data, and reports the first missing;
\* metadata extraction starts only when none is
C25_FirstMissingReported ==
    result.op = "read_scan" =>
        /\ result.index >= Len(reader.scans) =>
               /\ result.raised
               /\ result.error = ScanIndexError(result.index, Len(reader.scans))
               /\ result.lookups = <<>>
        /\ ValidIndex =>
               \A missing \in {FirstMissing(IndexedScan)} :
                   IF missing # NoError
                   THEN /\ result.raised
                        /\ result.error = missing
                        /\ ~MetadataStarted
                        /\ result.metadata = {}
                   ELSE (result.raised /\ ~MetadataStarted) =>
                            result.error = Error(result.error.type, "np.fromstring")

\* C25: read_scan checks the index (IndexError), then dataPoints, positions,
\* startPosition and endPosition, then converts the two position texts, then
\* looks for the intensity data, and reports the first of these that fails;
\* metadata extraction starts only after all of them, and after the samples
\* are parsed, so a scan whose series extraction fails has no metadata
\* computed.
C25_FirstFailureReported ==
    result.op = "read_scan" =>
        /\ result.index >= Len(reader.scans) =>
               /\ result.raised
               /\ result.error = ScanIndexError(result.index, Len(reader.scans))
               /\ result.lookups = <<>>
        /\ ValidIndex =>
               \A failure \in {FirstFailure(IndexedScan)} :
                   IF failure # NoError
                   THEN /\ result.raised
                        /\ result.error = failure
                        /\ ~MetadataStarted
                        /\ result.metadata = {}
                   ELSE (result.raised /\ ~MetadataStarted) =>
                            result.error = Error(result.error.type, "np.fromstring")

C25_Witness ==
    /\ result.op = "read_scan"
    /\ ValidIndex
    /\ ~Has(Kid(Kid(IndexedScan, "dataPoints"), "positions"), "startPosition")
    /\ NoIntensityText(IndexedScan)
    /\ result.raised
    /\ result.error = Error("ValueError", "Start or end position not found")
    /\ result.lookups = <<"dataPoints", "positions", "startPosition", "endPosition">>

\* the items a text gives: a float, a string, or nothing without text
NumItem(key, text) ==
    IF Truthy(text) /\ IsNumber(text)
    THEN {[key |-> key, val |-> MNum(PyFloat(text).val)]} ELSE {}
StrItem(key, text) ==
    IF Truthy(text) THEN {[key |-> key, val |-> MStr(text.toks)]} ELSE {}

MeasurementKeys ==
    {"wavelength_ka1", "wavelength_ka2", "wavelength_kb", "ka2_ka1_ratio",
     "gonio_radius", "tube_type", "voltage", "current"}
ScanKeys == {"start_time", "end_time", "temperature"}

\* what the first xrdMeasurement block under the root supplies
FirstBlockItems ==
    NumItem("wavelength_ka1", Kid(Wavelength, "kAlpha1").text)
        \union NumItem("wavelength_ka2", Kid(Wavelength, "kAlpha2").text)
        \union NumItem("wavelength_kb", Kid(Wavelength, "kBeta").text)
        \union NumItem("ka2_ka1_ratio", Kid(Wavelength, "ratioKAlpha2KAlpha1").text)
        \union (IF RadiusMalformed
                THEN {[key |-> "gonio_radius", val |-> MNum(RInt(DefaultGonioRadius))]}
                ELSE NumItem("gonio_radius", Kid(IncidentBeam, "radius").text)
                     \union {[key |-> "tube_type", val |-> MStr(<<StrTok(a.v)>>)] :
                                a \in {b \in Tube.attrib : b.k = "name"}}
                     \union StrItem("voltage", Kid(Tube, "tension").text)
                     \union StrItem("current", Kid(Tube, "current").text))

\* what the scan selected supplies
ScanItems(scan) ==
    StrItem("start_time", Kid(Kid(scan, "header"), "startTimeStamp").text)
        \union StrItem("end_time", Kid(Kid(scan, "header"), "endTimeStamp").text)
        \union (IF IsTemperature(Conditions(scan)) /\ TemperatureValues(scan).toks # <<>>
                THEN {[key |-> "temperature",
                       val |-> MNum(TokVal(TemperatureValues(scan).toks[
                                               Len(TemperatureValues(scan).toks)]))]}
                ELSE {})

\* the scan is a child of a measurement block after the first
InLaterBlock == reader.scans[result.index + 1][1] # find(reader.root, reader.namespace, "xrdMeasurement")

\* C26: the wavelength, radius and tube fields that get_metadata(i) returns
\* are those of the first xrdMeasurement block under the root for every
\* scan index i, a scan of a later block included; start_time, end_time and
\* temperature are those of the scan selected.
C26_MeasurementFieldsFromFirstBlock ==
    MetadataReturned =>
        /\ {item \in result.metadata : item.key \in MeasurementKeys} = FirstBlockItems
        /\ {item \in result.metadata : item.key \in ScanKeys} = ScanItems(IndexedScan)

C26_Witness ==
    /\ MetadataReturned
    /\ InLaterBlock
    /\ Kid(Deref(reader.root, <<reader.scans[result.index + 1][1]>>), "incidentBeamPath")
           # IncidentBeam
    /\ HasKey("tube_type")
    /\ Value("tube_type") = MStr(<<StrTok("Cu")>>)
    /\ Value("start_time") = MStr(<<StrTok("s22")>>)
    /\ Value("temperature") = MNum(RInt(202))

TubeKeys == {"tube_type", "voltage", "current"}

\* C27: when float(radius.text) raises and the default radius 300.0 is
\* set, the rest of the incidentBeamPath block is skipped: tube_type,
\* voltage and current are absent even where the xRayTube element supplies
\* them, while sample_id and the wavelengths, read before the block, and
\* start_time, end_time and temperature, read after it, are reported.
C27_RadiusErrorSkipsTube ==
    (MetadataReturned /\ RadiusMalformed) =>
        /\ HasKey("gonio_radius")
        /\ Value("gonio_radius") = MNum(RInt(DefaultGonioRadius))
        /\ \A key \in TubeKeys : ~HasKey(key)
        /\ \A key \in MetadataKeys \ (TubeKeys \union {"gonio_radius"}) :
               HasKey(key) <=> SourceGiven(key, IndexedScan)
        /\ {item \in result.metadata : item.key \in ScanKeys} = ScanItems(IndexedScan)

C27_Witness ==
    /\ MetadataReturned
    /\ RadiusMalformed
    /\ \A key \in TubeKeys : SourceGiven(key, IndexedScan) /\ ~HasKey(key)
    /\ HasKey("sample_id")
    /\ HasKey("wavelength_ka1")
    /\ HasKey("ka2_ka1_ratio")
    /\ HasKey("start_time")
    /\ HasKey("end_time")
    /\ HasKey("temperature")

\* no measurement block under the root has a scan child, whatever the
\* namespaces
Scanless(root) ==
    \A i \in 1..Len(root.children) :
        root.children[i].tag.name = "xrdMeasurement" =>
            \A j \in 1..Len(root.children[i].children) :
                root.children[i].children[j].tag.name # "scan"

\* C28: a document with a comment element and no xrdMeasurement block, or
\* with blocks that hold no scan, is accepted by the constructor;
\* get_num_scans() is 0, read_all_scans() returns the empty list without
\* error, and get_metadata, read_scan, to_array and read_xrdml raise the
\* index-range IndexError for every index >= 0.
C28_NoScansAccepted ==
    (file.exists /\ file.wellformed /\ CommentFound(file.root) /\ Scanless(file.root)) =>
        /\ result.op = "XRDMLReader" =>
               ~result.raised /\ reader.constructed /\ reader.scans = <<>>
        /\ result.op = "get_num_scans" => result.num = 0
        /\ result.op = "read_all_scans" => ~result.raised /\ result.list = <<>>
        /\ (/\ result.op \in {"get_metadata", "read_scan", "to_array", "read_xrdml"}
            /\ result.index >= 0) =>
               /\ result.raised
               /\ result.error = ScanIndexError(result.index, 0)
               /\ result.lookups = <<>>

C28_Witness ==
    /\ file.exists
    /\ file.wellformed
    /\ Scanless(file.root)
    /\ \E i \in 1..Len(file.root.children) :
           file.root.children[i].tag.name = "xrdMeasurement"
    /\ reader.constructed
    /\ result.op = "read_all_scans"
    /\ ~result.raised
    /\ result.list = <<>>

\* the y columns of the array returned are those of the columns selected,
\* each value changed by Change
YColumnsAre(Change(_)) ==
    \A r \in 1..Len(dataset.returned.array) :
        \A k \in 2..Len(dataset.columns) :
            dataset.returned.array[r][k] =
                Change(dataset.file.table.rows[r][dataset.columns[k] + 1])

\* the maximum of the first y column selected
FirstYMax ==
    ArrMax([r \in 1..Len(dataset.file.table.rows) |->
               dataset.file.table.rows[r][dataset.columns[2] + 1]])
DivideByFirstYMax(v) == IF RLt(RZero, FirstYMax) THEN RDiv(v, FirstYMax) ELSE v
MultiplyByScaleFactor(v) == RMul(v, dataset.scale_factor)
Unchanged(v) == v

\* the call cannot return an array: no file, no table, no column asked
\* for, a column the table does not have, or a normalization without a
\* first y column or without rows
LoadFails ==
    \/ ~dataset.file.exists
    \/ ~dataset.file.readable
    \/ dataset.columns = <<>>
    \/ \E k \in 1..Len(dataset.columns) : dataset.columns[k] >= dataset.file.table.ncols
    \/ dataset.normalize
           /\ (Len(dataset.columns) < 2 \/ dataset.file.table.rows = <<>>)

\* C29: load_xrd_dataset never raises.  It returns None when the file does
\* not exist, when it has no more columns than the largest index asked
\* for, and when reading or processing fails; otherwise it returns the
\* columns selected, the x column unaltered, every y column divided by the
\* maximum of the first y column under normalize=True if that maximum is
\* > 0 (scale_factor being ignored), and multiplied by scale_factor under
\* normalize=False.
C29_DatasetNormalizedOrScaled ==
    dataset.called =>
        /\ ~dataset.raised
        /\ dataset.returned.none <=> LoadFails
        /\ ~dataset.returned.none =>
               /\ Len(dataset.returned.array) = Len(dataset.file.table.rows)
               /\ \A r \in 1..Len(dataset.returned.array) :
                      /\ Len(dataset.returned.array[r]) = Len(dataset.columns)
                      /\ dataset.returned.array[r][1] =
                             dataset.file.table.rows[r][dataset.columns[1] + 1]
               /\ IF dataset.normalize THEN YColumnsAre(DivideByFirstYMax)
                  ELSE YColumnsAre(MultiplyByScaleFactor)

\* the call gets as far as the removal of rows
TtoRead ==
    /\ tto.called
    /\ tto.file.exists /\ tto.file.readable /\ tto.file.ncols >= 8
    /\ ~tto.datadrop.given \/ tto.datadrop.numeric

\* row i (from 1) is nearest to temp: no row is nearer, and no earlier row
\* is as near
IsNearest(i, temp) ==
    /\ \A j \in 1..Len(tto.file.rows) :
           Abs(TemperatureOf(tto.file.rows[i]) - temp)
               <= Abs(TemperatureOf(tto.file.rows[j]) - temp)
    /\ \A j \in 1..(i - 1) :
           Abs(TemperatureOf(tto.file.rows[i]) - temp)
               < Abs(TemperatureOf(tto.file.rows[j]) - temp)

\* the rows selected by the temperatures of datadrop, each looked up in
\* the data as read
Selected ==
    {i \in 1..Len(tto.file.rows) :
        \E k \in 1..Len(tto.datadrop.temps) : IsNearest(i, tto.datadrop.temps[k])}

\* the k-th row that is not selected
KeptRow(k) ==
    CHOOSE i \in 1..Len(tto.file.rows) :
        /\ i \notin Selected
        /\ Cardinality({j \in 1..i : j \notin Selected}) = k

\* C30: ttodataplot removes, for each temperature of datadrop, the row
\* whose temperature (column 5) is nearest to it, every such row being
\* looked up in the data as read and all being removed together: the array
\* returned holds the rows not selected, in their order, restricted to
\* columns 5..7.  Temperatures with the same nearest row remove it once,
\* and without datadrop, or with an empty one, no row is removed.
C30_NearestRowsDropped ==
    TtoRead =>
        \A selected \in {Selected} :
            /\ ~tto.raised
            /\ Len(tto.array) = Len(tto.file.rows) - Cardinality(selected)
            /\ \A k \in 1..Len(tto.array) :
                   tto.array[k] = SubSeq(tto.file.rows[KeptRow(k)], 6, 8)
            /\ tto.datadrop.temps = <<>> => Len(tto.array) = Len(tto.file.rows)

C30_Witness ==
    /\ TtoRead
    /\ Len(tto.file.rows) = 3
    /\ Len(tto.datadrop.temps) = 2
    /\ tto.datadrop.temps[1] # tto.datadrop.temps[2]
    /\ Selected = {2}
    /\ ~tto.raised
    /\ tto.array = <<SubSeq(tto.file.rows[1], 6, 8), SubSeq(tto.file.rows[3], 6, 8)>>

====
